---------------------------- MODULE Spec2Model ----------------------------
(***************************************************************************)
(* A model of the configuration core of Soong (android/config.go):         *)
(*   - the environment ledger (Getenv, GetenvWithDefault, IsEnvTrue,       *)
(*     IsEnvFalse, EnvDeps),                                               *)
(*   - the loading of the product variables (loadFromConfigFile),          *)
(*   - the build mode selection of NewConfig,                              *)
(*   - the uses of the memoization cache (Once).                           *)
(* Every operation of the code is an action; the value a call returns and  *)
(* whether it panicked is kept in the variable that records the last call. *)
(***************************************************************************)
EXTENDS Integers, Sequences, FiniteSets, TLC

VARIABLES
    \* ---- environment ledger (config.env, config.envDeps, config.envFrozen)
    env,            \* config.env: the environment handed to NewConfig, name -> value
    envDeps,        \* config.envDeps: name -> value observed at the first read
    envDepsNil,     \* TRUE while config.envDeps is still the nil map
    envFrozen,      \* config.envFrozen
    ret,            \* the last ledger operation and its outcome
    depsRet,        \* the mapping returned by the last EnvDeps call
    firstRet,       \* history: name -> the value the first successful Getenv returned
    firstDeps,      \* history: the mapping the first EnvDeps call returned; called again?
    \* ---- NewConfig
    pc,             \* position of NewConfig
    cmdArgs,        \* the CmdArgs given to NewConfig
    BuildMode,      \* config.BuildMode
    productVariables, \* config.productVariables
    cfgFile,        \* the product variables file (soong.variables) on disk
    ioFault,        \* the file operation that fails in this run, if any
    written,        \* the files this run has written
    result,         \* how NewConfig ended: the error returned or the fatal exit
    opened,         \* os.Open of the product variables file was called
    exported,       \* product_variable_constants.bzl as saveToBazelConfigFile wrote it
    acc,            \* the last call on the constructed Config and what it returned
    Targets,        \* config.Targets: OS -> list of targets
    multilibConflicts,          \* config.multilibConflicts: the arch types mapped to true
    AndroidFirstDeviceTarget,   \* config.AndroidFirstDeviceTarget
    AndroidCommonTarget,        \* config.AndroidCommonTarget
    bazelForceEnabledModules,   \* config.bazelForceEnabledModules
    mixedBuildEnabledModules,   \* config.mixedBuildEnabledModules
    mixedBuildDisabledModules,  \* config.mixedBuildDisabledModules
    \* ---- the output directory shared by processes that load at the same time
    disk,           \* the names in the directory and the files they name
    proc,           \* process -> its position in loadFromConfigFile
    seen,           \* history: what the readers of the product variables file found
    \* ---- two runs of the program, each with its process environment
    runs,           \* run -> its environment, its ledger and the values it derived
    \* ---- the workers that read the ledger at the same time
    envLock,        \* config.envLock: the worker that holds it, 0 when it is free
    thr,            \* worker -> the ledger call it is in
    \* ---- memoization cache (config.OncePer) and its callers
    onceValues,     \* OncePer.values: key -> state of the entry
    computeCount,   \* history: key -> number of executions of its compute function
    call            \* caller -> the call it is in

envVars == <<env, envDeps, envDepsNil, envFrozen, ret, depsRet, firstRet, firstDeps>>
targetVars == <<Targets, multilibConflicts, AndroidFirstDeviceTarget, AndroidCommonTarget>>
moduleVars == <<bazelForceEnabledModules, mixedBuildEnabledModules, mixedBuildDisabledModules>>
persistVars == <<disk, proc, seen>>
runVars == <<runs>>
lockVars == <<envLock, thr>>
cfgVars == <<pc, cmdArgs, BuildMode, productVariables, cfgFile, ioFault, written, result,
             opened, exported, acc, targetVars, moduleVars, persistVars, runVars, lockVars>>
onceVars == <<onceValues, computeCount, call>>
vars == <<envVars, cfgVars, onceVars>>

(***************************************************************************)
(* Values.                                                                 *)
(***************************************************************************)

\* Names of environment variables the configuration reads.
EnvNames == {"GLOBAL_THINLTO", "RUN_ERROR_PRONE"}

\* The strings IsEnvTrue and IsEnvFalse compare against, and some others.
TruthyStrings == {"1", "y", "yes", "on", "true"}
FalsyStrings == {"0", "n", "no", "off", "false"}
OtherStrings == {"", "2", "TRUE", "t"}
EnvValues == TruthyStrings \cup FalsyStrings \cup OtherStrings

\* The values the ledger specification draws the environment from.
FewValues == {"", "1", "off", "2"}

\* history marker: no value returned yet
NoValue == "<none>"

\* The environments over a set of values: every name is unset or bound.
Environments(values) ==
    UNION {[names -> values] : names \in SUBSET EnvNames}

\* Go's map read m[k]: the zero value "" for a missing key.
MapGet(m, k) == IF k \in DOMAIN m THEN m[k] ELSE ""

\* m with k bound to v (k may be new).
MapPut(m, k, v) == [n \in DOMAIN m \cup {k} |-> IF n = k THEN v ELSE m[n]]

EmptyMap == [n \in {} |-> ""]

(***************************************************************************)
(* Environment ledger.                                                     *)
(***************************************************************************)

\* A Getenv that reads the live environment on every call and records it again.
GetenvCall_Reread(key) ==
    IF key \notin DOMAIN envDeps /\ envFrozen
    THEN [panicked |-> TRUE, val |-> "", deps |-> envDeps]
    ELSE [panicked |-> FALSE, val |-> MapGet(env, key),
          deps |-> MapPut(envDeps, key, MapGet(env, key))]

\* A Getenv that does not look at envFrozen.
GetenvCall_NoFreezeCheck(key) ==
    IF key \in DOMAIN envDeps
    THEN [panicked |-> FALSE, val |-> envDeps[key], deps |-> envDeps]
    ELSE [panicked |-> FALSE, val |-> MapGet(env, key),
          deps |-> MapPut(envDeps, key, MapGet(env, key))]

\* A Getenv that records only the names the environment binds.
GetenvOn_UnsetNotRecorded(l, key) ==
    IF key \in DOMAIN l.envDeps
    THEN [panicked |-> FALSE, val |-> l.envDeps[key], deps |-> l.envDeps]
    ELSE IF l.envFrozen
         THEN [panicked |-> TRUE, val |-> "", deps |-> l.envDeps]
         ELSE [panicked |-> FALSE, val |-> MapGet(l.env, key),
               deps |-> IF key \in DOMAIN l.env
                        THEN MapPut(l.envDeps, key, l.env[key]) ELSE l.envDeps]

\* config.Getenv under envLock on the ledger l (its env, envDeps, envFrozen):
\* the outcome of one call.
\* panicked: the call panics; val: the value returned; deps: envDeps afterwards.
GetenvOn(l, key) ==
    IF key \in DOMAIN l.envDeps
    THEN [panicked |-> FALSE, val |-> l.envDeps[key], deps |-> l.envDeps]
    ELSE IF l.envFrozen
         THEN [panicked |-> TRUE, val |-> "", deps |-> l.envDeps]
         ELSE [panicked |-> FALSE, val |-> MapGet(l.env, key),
               deps |-> MapPut(l.envDeps, key, MapGet(l.env, key))]

\* config.Getenv on the ledger of the Config of the current state.
GetenvCall(key) ==
    GetenvOn([env |-> env, envDeps |-> envDeps, envFrozen |-> envFrozen], key)

\* The effect of a Getenv call on the ledger and on the history.
GetenvEffect(key, g) ==
    /\ envDeps' = g.deps
    /\ envDepsNil' = FALSE          \* envDeps is made before the lookup
    /\ firstRet' = IF ~g.panicked /\ firstRet[key] = NoValue
                   THEN [firstRet EXCEPT ![key] = g.val]
                   ELSE firstRet
    /\ UNCHANGED <<env, envFrozen, depsRet, firstDeps>>

Getenv(key) ==
    LET g == GetenvCall(key) IN
    /\ GetenvEffect(key, g)
    /\ ret' = [op |-> "Getenv", key |-> key, val |-> g.val, bool |-> FALSE,
               panicked |-> g.panicked]
    /\ UNCHANGED <<cfgVars, onceVars>>

GetenvWithDefault(key, defaultValue) ==
    LET g == GetenvCall(key) IN
    /\ GetenvEffect(key, g)
    /\ ret' = [op |-> "GetenvWithDefault", key |-> key,
               val |-> IF g.panicked THEN ""
                       ELSE IF g.val = "" THEN defaultValue ELSE g.val,
               bool |-> FALSE, panicked |-> g.panicked, dflt |-> defaultValue]
    /\ UNCHANGED <<cfgVars, onceVars>>

\* IsEnvTrue without "on".
isTrueString_NoOn(value) ==
    value = "1" \/ value = "y" \/ value = "yes" \/ value = "true"

isTrueString(value) ==
    value = "1" \/ value = "y" \/ value = "yes" \/ value = "on" \/ value = "true"

isFalseString(value) ==
    value = "0" \/ value = "n" \/ value = "no" \/ value = "off" \/ value = "false"

IsEnvTrue(key) ==
    LET g == GetenvCall(key) IN
    /\ GetenvEffect(key, g)
    /\ ret' = [op |-> "IsEnvTrue", key |-> key, val |-> g.val,
               bool |-> ~g.panicked /\ isTrueString(g.val), panicked |-> g.panicked]
    /\ UNCHANGED <<cfgVars, onceVars>>

IsEnvFalse(key) ==
    LET g == GetenvCall(key) IN
    /\ GetenvEffect(key, g)
    /\ ret' = [op |-> "IsEnvFalse", key |-> key, val |-> g.val,
               bool |-> ~g.panicked /\ isFalseString(g.val), panicked |-> g.panicked]
    /\ UNCHANGED <<cfgVars, onceVars>>

\* An EnvDeps that returns the ledger and does not freeze it.
EnvDeps_NoFreeze ==
    /\ envFrozen' = envFrozen
    /\ depsRet' = envDeps
    /\ firstDeps' = IF firstDeps.called THEN [firstDeps EXCEPT !.again = TRUE]
                    ELSE [called |-> TRUE, again |-> FALSE, deps |-> envDeps]
    /\ ret' = [op |-> "EnvDeps", key |-> "", val |-> "", bool |-> FALSE,
               panicked |-> FALSE]
    /\ UNCHANGED <<env, envDeps, envDepsNil, firstRet>>
    /\ UNCHANGED <<cfgVars, onceVars>>

EnvDeps ==
    /\ envFrozen' = TRUE
    /\ depsRet' = envDeps
    /\ firstDeps' = IF firstDeps.called THEN [firstDeps EXCEPT !.again = TRUE]
                    ELSE [called |-> TRUE, again |-> FALSE, deps |-> envDeps]
    /\ ret' = [op |-> "EnvDeps", key |-> "", val |-> "", bool |-> FALSE,
               panicked |-> FALSE]
    /\ UNCHANGED <<env, envDeps, envDepsNil, firstRet>>
    /\ UNCHANGED <<cfgVars, onceVars>>

\* The owner of the map given to NewConfig as availableEnv binds a name anew,
\* or removes it: config.env is that same map.
Setenv(key, value) ==
    /\ MapGet(env, key) # value \/ key \notin DOMAIN env
    /\ env' = MapPut(env, key, value)
    /\ ret' = [op |-> "Setenv", key |-> key, val |-> value, bool |-> FALSE,
               panicked |-> FALSE]
    /\ UNCHANGED <<envDeps, envDepsNil, envFrozen, depsRet, firstRet, firstDeps>>
    /\ UNCHANGED <<cfgVars, onceVars>>

Unsetenv(key) ==
    /\ key \in DOMAIN env
    /\ env' = [n \in DOMAIN env \ {key} |-> env[n]]
    /\ ret' = [op |-> "Unsetenv", key |-> key, val |-> "", bool |-> FALSE,
               panicked |-> FALSE]
    /\ UNCHANGED <<envDeps, envDepsNil, envFrozen, depsRet, firstRet, firstDeps>>
    /\ UNCHANGED <<cfgVars, onceVars>>

(***************************************************************************)
(* The ledger under concurrent workers: Getenv and EnvDeps statement by    *)
(* statement, each between envLock.Lock() and the deferred                  *)
(* envLock.Unlock().                                                        *)
(***************************************************************************)

NumThreads == 2
Threads == 1..NumThreads

IdleThread == [op |-> "", key |-> "", pc |-> "idle", val |-> "", deps |-> EmptyMap]

\* What a worker's step leaves alone besides the ledger.
ThreadFrame ==
    /\ UNCHANGED <<pc, cmdArgs, BuildMode, productVariables, cfgFile, ioFault, written, result>>
    /\ UNCHANGED <<opened, exported, acc, targetVars, moduleVars, persistVars, runVars>>
    /\ UNCHANGED <<env, onceVars>>

\* What a worker's step inside a call leaves alone.
ThreadStepFrame ==
    /\ UNCHANGED <<ret, depsRet, firstRet, firstDeps>>
    /\ ThreadFrame

\* A worker calls Getenv(key) or EnvDeps() and reaches envLock.Lock().
ThreadCall(t, op, key) ==
    /\ thr[t].pc = "idle"
    /\ thr' = [thr EXCEPT ![t] = [IdleThread EXCEPT !.op = op, !.key = key, !.pc = "lock"]]
    /\ UNCHANGED <<envLock, envDeps, envDepsNil, envFrozen>>
    /\ ThreadStepFrame

\* A Lock that does not wait for the holder of the lock.
ThreadLock_NoExclusion(t) ==
    /\ thr[t].pc = "lock"
    /\ envLock' = t
    /\ thr' = [thr EXCEPT ![t].pc = IF thr[t].op = "Getenv" THEN "lookup" ELSE "freeze"]
    /\ UNCHANGED <<envDeps, envDepsNil, envFrozen>>
    /\ ThreadStepFrame

\* c.envLock.Lock(): the worker gets the lock once it is free.
ThreadLock(t) ==
    /\ thr[t].pc = "lock"
    /\ envLock = 0
    /\ envLock' = t
    /\ thr' = [thr EXCEPT ![t].pc = IF thr[t].op = "Getenv" THEN "lookup" ELSE "freeze"]
    /\ UNCHANGED <<envDeps, envDepsNil, envFrozen>>
    /\ ThreadStepFrame

\* Getenv: the nil map is replaced, and the name is looked up in envDeps.
GetenvLookup(t) ==
    /\ thr[t].pc = "lookup"
    /\ envDepsNil' = FALSE
    /\ thr' = [thr EXCEPT ![t] =
          IF thr[t].key \in DOMAIN envDeps
          THEN [@ EXCEPT !.val = envDeps[thr[t].key], !.pc = "unlock"]
          ELSE [@ EXCEPT !.pc = "check"]]
    /\ UNCHANGED <<envLock, envDeps, envFrozen>>
    /\ ThreadStepFrame

\* Getenv: a name not recorded yet is refused once the ledger is frozen.
GetenvCheckFrozen(t) ==
    /\ thr[t].pc = "check"
    /\ thr' = [thr EXCEPT ![t].pc = IF envFrozen THEN "panic" ELSE "read"]
    /\ UNCHANGED <<envLock, envDeps, envDepsNil, envFrozen>>
    /\ ThreadStepFrame

\* Getenv: val, _ = c.env[key]
GetenvRead(t) ==
    /\ thr[t].pc = "read"
    /\ thr' = [thr EXCEPT ![t].val = MapGet(env, thr[t].key), ![t].pc = "write"]
    /\ UNCHANGED <<envLock, envDeps, envDepsNil, envFrozen>>
    /\ ThreadStepFrame

\* Getenv: c.envDeps[key] = val
GetenvWrite(t) ==
    /\ thr[t].pc = "write"
    /\ envDeps' = MapPut(envDeps, thr[t].key, thr[t].val)
    /\ thr' = [thr EXCEPT ![t].pc = "unlock"]
    /\ UNCHANGED <<envLock, envDepsNil, envFrozen>>
    /\ ThreadStepFrame

\* EnvDeps: c.envFrozen = true
EnvDepsFreeze(t) ==
    /\ thr[t].pc = "freeze"
    /\ envFrozen' = TRUE
    /\ thr' = [thr EXCEPT ![t].pc = "result"]
    /\ UNCHANGED <<envLock, envDeps, envDepsNil>>
    /\ ThreadStepFrame

\* EnvDeps: the operand of return c.envDeps is evaluated.
EnvDepsResult(t) ==
    /\ thr[t].pc = "result"
    /\ thr' = [thr EXCEPT ![t].deps = envDeps, ![t].pc = "unlock"]
    /\ UNCHANGED <<envLock, envDeps, envDepsNil, envFrozen>>
    /\ ThreadStepFrame

\* The deferred c.envLock.Unlock() runs, after the return statement or the
\* panic, and the call is over.
ThreadUnlock(t) ==
    LET c == thr[t]
        panicked == c.pc = "panic"
    IN  /\ c.pc \in {"unlock", "panic"}
        /\ envLock' = 0
        /\ thr' = [thr EXCEPT ![t].pc = IF panicked THEN "panicked" ELSE "returned"]
        /\ ret' = [op |-> c.op, key |-> c.key, val |-> c.val, bool |-> FALSE,
                   panicked |-> panicked]
        /\ IF c.op = "Getenv"
           THEN /\ firstRet' = IF ~panicked /\ firstRet[c.key] = NoValue
                               THEN [firstRet EXCEPT ![c.key] = c.val]
                               ELSE firstRet
                /\ UNCHANGED <<depsRet, firstDeps>>
           ELSE /\ depsRet' = c.deps
                /\ firstDeps' = IF firstDeps.called THEN [firstDeps EXCEPT !.again = TRUE]
                                ELSE [called |-> TRUE, again |-> FALSE, deps |-> c.deps]
                /\ UNCHANGED firstRet
        /\ UNCHANGED <<envDeps, envDepsNil, envFrozen>>
        /\ ThreadFrame

\* The worker is done with the result and may call again.
ThreadDone(t) ==
    /\ thr[t].pc \in {"returned", "panicked"}
    /\ thr' = [thr EXCEPT ![t] = IdleThread]
    /\ UNCHANGED <<envLock, envDeps, envDepsNil, envFrozen>>
    /\ ThreadStepFrame

(***************************************************************************)
(* Product variables.  A pointer field (to bool, int or string) is a       *)
(* sequence of length at most one: Nil is the nil pointer, Ptr(v) points   *)
(* to v.                                                                   *)
(***************************************************************************)

Nil == <<>>
Ptr(v) == <<v>>

\* proptools.Bool, proptools.String: the value pointed to, or the zero value.
Bool(p) == p # Nil /\ p[1]
String(p) == IF p = Nil THEN "" ELSE p[1]
BoolPtr(b) == Ptr(b)
StringPtr(s) == Ptr(s)

OptBools == {Nil, Ptr(TRUE), Ptr(FALSE)}

\* The zero value of productVariables: what NewConfig starts from.
\* A slice field is a sequence; the nil slice is the empty sequence.
ZeroVars ==
    [GcovCoverage |-> Nil, ClangCoverage |-> Nil, Native_coverage |-> Nil,
     Platform_sdk_final |-> Nil, Platform_sdk_version |-> Nil,
     Platform_sdk_codename |-> Nil, Platform_sdk_version_or_codename |-> Nil,
     DeviceArch |-> Nil, DeviceSecondaryArch |-> Nil,
     Ndk_abis |-> Nil, Aml_abis |-> Nil, Allow_missing_dependencies |-> Nil,
     SanitizeHost |-> <<>>, SanitizeDevice |-> <<>>, SanitizeDeviceDiag |-> <<>>,
     SanitizeDeviceArch |-> <<>>,
     BootJars |-> <<>>, ApexBootJars |-> <<>>,
     VendorSnapshotDirsExcluded |-> <<>>, VendorSnapshotDirsIncluded |-> <<>>,
     RecoverySnapshotDirsExcluded |-> <<>>, RecoverySnapshotDirsIncluded |-> <<>>,
     NativeCoveragePaths |-> <<>>, NativeCoverageExcludePaths |-> <<>>]

\* productVariables.SetDefaultConfig (variable.go): the defaults replace the
\* whole record; no coverage mode is on, the SDK is the preview "S" of 30.
SetDefaultConfig ==
    [ZeroVars EXCEPT !.Platform_sdk_version = Ptr(30),
                     !.Platform_sdk_codename = Ptr("S"),
                     !.Platform_sdk_final = Ptr(FALSE),
                     !.DeviceArch = Ptr("arm64")]

\* strconv.Itoa
Digit(d) ==
    CASE d = 0 -> "0" [] d = 1 -> "1" [] d = 2 -> "2" [] d = 3 -> "3" [] d = 4 -> "4"
      [] d = 5 -> "5" [] d = 6 -> "6" [] d = 7 -> "7" [] d = 8 -> "8" [] d = 9 -> "9"

RECURSIVE ItoaNat(_)
ItoaNat(n) == IF n < 10 THEN Digit(n) ELSE ItoaNat(n \div 10) \o Digit(n % 10)

Itoa(n) == IF n < 0 THEN "-" \o ItoaNat(-n) ELSE ItoaNat(n)

(***************************************************************************)
(* Files.  A path is a sequence of pieces; a directory given on the        *)
(* command line is a sequence of single characters, so that                *)
(* strings.HasPrefix is the prefix relation on sequences.                  *)
(***************************************************************************)

productVariablesFileName == <<"soong.variables">>

\* filepath.Join of a clean directory and a file name
Join(dir, name) == dir \o <<"/">> \o name

\* The path as fmt's %s prints it: the pieces one after the other.
RECURSIVE PathString(_)
PathString(path) ==
    IF path = <<>> THEN "" ELSE path[1] \o PathString(Tail(path))

\* A HasPrefix with its arguments taken the other way round.
HasPrefix_Swapped(s, prefix) ==
    Len(s) <= Len(prefix) /\ SubSeq(prefix, 1, Len(s)) = s

\* strings.HasPrefix(s, prefix)
HasPrefix(s, prefix) ==
    Len(prefix) <= Len(s) /\ SubSeq(s, 1, Len(prefix)) = prefix

\* The source root the process runs in, and the output directories tried.
absSrcDir == <<"/", "a", "/", "s", "r", "c">>
OutDirInside == <<"/", "a", "/", "s", "r", "c", "/", "o">>
OutDirRoot == <<"/">>
OutDirParent == <<"/", "a">>
OutDirSrc == absSrcDir
OutDirSibling == <<"/", "a", "/", "s", "r">>
OutDirOutside == <<"/", "o">>
OutDirs == {OutDirRoot, OutDirParent, OutDirSrc, OutDirSibling, OutDirInside, OutDirOutside}

\* The product variables file on disk: absent, present but not readable,
\* present and not JSON, or a JSON document giving some of the fields.
\* A JSON document is the object it holds: member name -> value.
EmptyDoc == [f \in {} |-> Nil]
AbsentFile == [state |-> "absent", doc |-> EmptyDoc]
UnreadableFile == [state |-> "unreadable", doc |-> EmptyDoc]
MalformedFile == [state |-> "malformed", doc |-> EmptyDoc]
JsonFile(doc) == [state |-> "ok", doc |-> doc]

\* The member f of a document, Nil when it has none.
JsonGet(doc, f) == IF f \in DOMAIN doc THEN doc[f] ELSE Nil

\* A Marshal that leaves out a boolean that is false, as omitempty does for a
\* field that is not a pointer.
Marshal_OmitFalse(config) ==
    [f \in {x \in DOMAIN config :
               /\ config[x] # Nil
               /\ ~(x \in {"GcovCoverage", "ClangCoverage", "Native_coverage",
                           "Platform_sdk_final"} /\ config[x] = Ptr(FALSE))}
        |-> config[f]]

\* json.Marshal of the record: a nil pointer or empty slice is left out
\* (omitempty), every other field is written with its value.
Marshal(config) ==
    [f \in {x \in DOMAIN config : config[x] # Nil} |-> config[f]]

\* json.Decoder.Decode into the record: a field the document gives is set,
\* a field it does not give keeps its value.
Decode(configurable, doc) ==
    [f \in DOMAIN configurable |->
        IF f \in DOMAIN doc THEN doc[f] ELSE configurable[f]]

\* The documents tried: every combination of the coverage fields and of the
\* SDK fields.
Docs ==
    {Marshal([ZeroVars EXCEPT !.GcovCoverage = g, !.ClangCoverage = c, !.Native_coverage = n,
                      !.Platform_sdk_final = f, !.Platform_sdk_version = v,
                      !.Platform_sdk_codename = k]) :
        g \in OptBools, c \in OptBools, n \in OptBools, f \in OptBools,
        v \in {Nil, Ptr(9), Ptr(33)}, k \in {Nil, Ptr("U")}}

\* The file operations that can be made to fail, one per run at most.
IoFaults == {"none", "createTemp", "write", "rename", "mkdir", "writeBzl"}

IoError == "input/output error"
NoError == <<>>

\* saveToConfigFile: the outcome of writing config to filename under fault.
\* file: the target afterwards; err: the error returned (NoError: nil).
saveToConfigFile(config, filename, file, fault) ==
    IF fault = "createTemp"
    THEN [file |-> file, written |-> {},
          err |-> <<"cannot create empty config file ", PathString(filename), ": ", IoError>>]
    ELSE IF fault = "write"
    THEN [file |-> file, written |-> {"config.tmp"},
          err |-> <<"default config file: ", PathString(filename), " could not be written: ", IoError>>]
    ELSE IF fault = "rename"
    THEN \* the result of os.Rename is not looked at
         [file |-> file, written |-> {"config.tmp"}, err |-> NoError]
    ELSE [file |-> JsonFile(Marshal(config)),
          written |-> {"config.tmp", "soong.variables"}, err |-> NoError]

\* strings.ToLower of a name given as a sequence of characters.
UpperCase == <<"A", "B", "C", "D", "E", "F", "G", "H", "I", "J", "K", "L", "M",
               "N", "O", "P", "Q", "R", "S", "T", "U", "V", "W", "X", "Y", "Z">>
LowerCase == <<"a", "b", "c", "d", "e", "f", "g", "h", "i", "j", "k", "l", "m",
               "n", "o", "p", "q", "r", "s", "t", "u", "v", "w", "x", "y", "z">>
ToLowerChar(ch) ==
    IF \E i \in 1..26 : UpperCase[i] = ch
    THEN LowerCase[CHOOSE i \in 1..26 : UpperCase[i] = ch]
    ELSE ch
ToLower(name) == [i \in 1..Len(name) |-> ToLowerChar(name[i])]

\* Fields of variableProperties.Product_variables, in the order of their
\* declaration: the name, and whether the tag android:"arch_variant" is there.
ProductVariablesFields ==
    << [Name |-> <<"D", "e", "b", "u", "g", "g", "a", "b", "l", "e">>, arch_variant |-> TRUE],
       [Name |-> <<"E", "n", "g">>, arch_variant |-> FALSE],
       [Name |-> <<"N", "a", "t", "i", "v", "e", "_", "c", "o", "v", "e", "r", "a", "g", "e">>,
        arch_variant |-> TRUE],
       [Name |-> <<"P", "d", "k">>, arch_variant |-> FALSE] >>

\* saveToBazelConfigFile, the loop over the fields from the i-th on.
RECURSIVE productVariableListsFrom(_, _, _)
productVariableListsFrom(t, i, lists) ==
    IF i > Len(t) THEN lists
    ELSE LET f == t[i] IN
         productVariableListsFrom(t, i + 1,
            [nonArchVariantProductVariables |->
                Append(lists.nonArchVariantProductVariables, ToLower(f.Name)),
             archVariantProductVariables |->
                IF f.arch_variant
                THEN Append(lists.archVariantProductVariables, ToLower(f.Name))
                ELSE lists.archVariantProductVariables])

\* product_variable_constants.bzl as saveToBazelConfigFile writes it.
ProductVariableConstants ==
    LET lists == productVariableListsFrom(ProductVariablesFields, 1,
                    [nonArchVariantProductVariables |-> <<>>,
                     archVariantProductVariables |-> <<>>])
    IN  << [product_var_constraints |-> lists.nonArchVariantProductVariables,
            arch_variant_product_var_constraints |-> lists.archVariantProductVariables] >>

\* saveToBazelConfigFile: the export into soong_injection/product_config.
saveToBazelConfigFile(config, fault) ==
    IF fault = "mkdir"
    THEN [written |-> {},
          err |-> <<"Could not create dir ", "soong_injection/product_config", ": ", IoError>>]
    ELSE IF fault = "writeBzl"
    THEN [written |-> {"soong_injection/product_config"},
          err |-> <<"Could not write .bzl config file ", IoError>>]
    ELSE [written |-> {"soong_injection/product_config", "product_variables.bzl",
                       "product_variable_constants.bzl", "BUILD"},
          err |-> NoError]

CoverageError == <<"GcovCoverage and ClangCoverage cannot both be set">>
SdkVersionError == <<"Platform_sdk_version cannot be pointed by a NULL pointer">>

\* A variant that keeps a Native_coverage the file gives.
DeriveAndExport_KeepNative(c, file, w, fault) ==
    LET c1 == [c EXCEPT !.Native_coverage =
                   IF c.Native_coverage # Nil THEN c.Native_coverage
                   ELSE BoolPtr(Bool(c.GcovCoverage) \/ Bool(c.ClangCoverage))]
        c2 == [c1 EXCEPT !.Platform_sdk_version_or_codename =
                   IF Bool(c.Platform_sdk_final)
                   THEN StringPtr(Itoa(c.Platform_sdk_version[1]))
                   ELSE StringPtr(String(c.Platform_sdk_codename))]
        b == saveToBazelConfigFile(c2, fault)
    IN  IF Bool(c.GcovCoverage) /\ Bool(c.ClangCoverage)
        THEN [pv |-> c, file |-> file, written |-> w, err |-> CoverageError]
        ELSE IF Bool(c.Platform_sdk_final) /\ c.Platform_sdk_version = Nil
        THEN [pv |-> c1, file |-> file, written |-> w, err |-> SdkVersionError]
        ELSE [pv |-> c2, file |-> file, written |-> w \cup b.written, err |-> b.err]

\* A variant without the check of the two coverage modes.
DeriveAndExport_NoCoverageCheck(c, file, w, fault) ==
    LET c1 == [c EXCEPT !.Native_coverage =
                   BoolPtr(Bool(c.GcovCoverage) \/ Bool(c.ClangCoverage))]
        c2 == [c1 EXCEPT !.Platform_sdk_version_or_codename =
                   IF Bool(c.Platform_sdk_final)
                   THEN StringPtr(Itoa(c.Platform_sdk_version[1]))
                   ELSE StringPtr(String(c.Platform_sdk_codename))]
        b == saveToBazelConfigFile(c2, fault)
    IN  IF Bool(c.Platform_sdk_final) /\ c.Platform_sdk_version = Nil
        THEN [pv |-> c1, file |-> file, written |-> w, err |-> SdkVersionError]
        ELSE [pv |-> c2, file |-> file, written |-> w \cup b.written, err |-> b.err]

\* A variant that takes the codename whether or not the SDK is final.
DeriveAndExport_CodenameAlways(c, file, w, fault) ==
    LET c1 == [c EXCEPT !.Native_coverage =
                   BoolPtr(Bool(c.GcovCoverage) \/ Bool(c.ClangCoverage))]
        c2 == [c1 EXCEPT !.Platform_sdk_version_or_codename =
                   StringPtr(String(c.Platform_sdk_codename))]
        b == saveToBazelConfigFile(c2, fault)
    IN  IF Bool(c.GcovCoverage) /\ Bool(c.ClangCoverage)
        THEN [pv |-> c, file |-> file, written |-> w, err |-> CoverageError]
        ELSE IF Bool(c.Platform_sdk_final) /\ c.Platform_sdk_version = Nil
        THEN [pv |-> c1, file |-> file, written |-> w, err |-> SdkVersionError]
        ELSE [pv |-> c2, file |-> file, written |-> w \cup b.written, err |-> b.err]

\* loadFromConfigFile after the decode or the defaults: the check of the
\* coverage modes, the derived fields and the export, from the record c;
\* file and w (what was written so far) are passed through.
DeriveAndExport(c, file, w, fault) ==
    LET c1 == [c EXCEPT !.Native_coverage =
                   BoolPtr(Bool(c.GcovCoverage) \/ Bool(c.ClangCoverage))]
        c2 == [c1 EXCEPT !.Platform_sdk_version_or_codename =
                   IF Bool(c.Platform_sdk_final)
                   THEN StringPtr(Itoa(c.Platform_sdk_version[1]))
                   ELSE StringPtr(String(c.Platform_sdk_codename))]
        b == saveToBazelConfigFile(c2, fault)
    IN  IF Bool(c.GcovCoverage) /\ Bool(c.ClangCoverage)
        THEN [pv |-> c, file |-> file, written |-> w, err |-> CoverageError]
        ELSE IF Bool(c.Platform_sdk_final) /\ c.Platform_sdk_version = Nil
        THEN [pv |-> c1, file |-> file, written |-> w, err |-> SdkVersionError]
        ELSE [pv |-> c2, file |-> file, written |-> w \cup b.written, err |-> b.err]

\* loadFromConfigFile(configurable, filename) with the file as it is on disk:
\* pv: the record afterwards; file: the file afterwards; written: what the
\* call created or wrote; err: the error returned.
loadFromConfigFile(configurable, filename, file, fault) ==
    IF file.state = "absent"
    THEN LET d == SetDefaultConfig
             s == saveToConfigFile(d, filename, file, fault)
         IN  IF s.err # NoError
             THEN [pv |-> d, file |-> s.file, written |-> s.written, err |-> s.err]
             ELSE DeriveAndExport(d, s.file, s.written, fault)
    ELSE IF file.state = "unreadable"
    THEN [pv |-> configurable, file |-> file, written |-> {},
          err |-> <<"config file: could not open ", PathString(filename), ": ", "permission denied">>]
    ELSE IF file.state = "malformed"
    THEN [pv |-> configurable, file |-> file, written |-> {},
          err |-> <<"config file: ", PathString(filename), " did not parse correctly: ",
                    "invalid character">>]
    ELSE DeriveAndExport(Decode(configurable, file.doc), file, {}, fault)

\* deviceConfig.NativeCoverageEnabled
NativeCoverageEnabled ==
    Bool(productVariables.GcovCoverage) \/ Bool(productVariables.ClangCoverage)

(***************************************************************************)
(* NewConfig.                                                              *)
(***************************************************************************)

\* SoongBuildMode
AnalysisNoBazel == 0
SymlinkForest == 1
Bp2build == 2
GenerateQueryView == 3
ApiBp2build == 4
GenerateModuleGraph == 5
GenerateDocFile == 6
BazelDevMode == 7
BazelStagingMode == 8
BazelProdMode == 9

\* A marker path or directory given on the command line, or none.
ArgStrings == {"", "path"}

\* The mode requests of CmdArgs.
ModeArgs ==
    [SymlinkForestMarker : ArgStrings, Bp2buildMarker : ArgStrings,
     BazelQueryViewDir : ArgStrings, BazelApiBp2buildDir : ArgStrings,
     ModuleGraphFile : ArgStrings, DocFile : ArgStrings,
     BazelModeDev : BOOLEAN, BazelMode : BOOLEAN, BazelModeStaging : BOOLEAN]

NoModeArgs ==
    [SymlinkForestMarker |-> "", Bp2buildMarker |-> "", BazelQueryViewDir |-> "",
     BazelApiBp2buildDir |-> "", ModuleGraphFile |-> "", DocFile |-> "",
     BazelModeDev |-> FALSE, BazelMode |-> FALSE, BazelModeStaging |-> FALSE]

\* CmdArgs: the mode requests and the output directory.
WithOutDir(modeArgs, dir) ==
    [SoongOutDir |-> dir, mode |-> modeArgs, BazelForceEnabledModules |-> <<>>]

\* strings.Split(s, sep) of a string given as a sequence of characters, from
\* its i-th character on; cur is the piece begun.
RECURSIVE SplitFrom(_, _, _, _)
SplitFrom(s, sep, i, cur) ==
    IF i > Len(s) THEN <<cur>>
    ELSE IF s[i] = sep THEN <<cur>> \o SplitFrom(s, sep, i + 1, <<>>)
         ELSE SplitFrom(s, sep, i + 1, Append(cur, s[i]))

Split(s, sep) == SplitFrom(s, sep, 1, <<>>)

\* NewConfig, the loop over strings.Split(cmdArgs.BazelForceEnabledModules, ","):
\* the keys of bazelForceEnabledModules afterwards.
ForceEnabledModules(arg) ==
    LET modules == Split(arg, ",") IN {modules[i] : i \in 1..Len(modules)}

\* The state setBuildMode and setBazelMode work on: the mode, and whether the
\* process has exited (os.Exit(1)) with which message on stderr.
ModeStart(mode) == [BuildMode |-> mode, exited |-> FALSE, stderr |-> <<>>]

\* A setBuildMode that lets a later request replace the mode.
setBuildMode_LastWins(st, arg, mode) ==
    IF st.exited \/ arg = "" THEN st ELSE [st EXCEPT !.BuildMode = mode]

\* setBuildMode := func(arg string, mode SoongBuildMode)
setBuildMode(st, arg, mode) ==
    IF st.exited \/ arg = ""
    THEN st
    ELSE IF st.BuildMode # AnalysisNoBazel
         THEN [st EXCEPT !.exited = TRUE,
                         !.stderr = <<"buildMode is already set, illegal argument: ", arg>>]
         ELSE [st EXCEPT !.BuildMode = mode]

\* setBazelMode := func(arg bool, argName string, mode SoongBuildMode)
setBazelMode(st, arg, argName, mode) ==
    IF st.exited \/ ~arg
    THEN st
    ELSE IF st.BuildMode # AnalysisNoBazel
         THEN [st EXCEPT !.exited = TRUE,
                         !.stderr = <<"buildMode is already set, illegal argument: ", argName>>]
         ELSE [st EXCEPT !.BuildMode = mode]

\* A selection that does not look at the documentation file request.
SelectBuildMode_NoDocFile(a, mode) ==
    LET s1 == setBuildMode(ModeStart(mode), a.SymlinkForestMarker, SymlinkForest)
        s2 == setBuildMode(s1, a.Bp2buildMarker, Bp2build)
        s3 == setBuildMode(s2, a.BazelQueryViewDir, GenerateQueryView)
        s4 == setBuildMode(s3, a.BazelApiBp2buildDir, ApiBp2build)
        s5 == setBuildMode(s4, a.ModuleGraphFile, GenerateModuleGraph)
        s7 == setBazelMode(s5, a.BazelModeDev, "--bazel-mode-dev", BazelDevMode)
        s8 == setBazelMode(s7, a.BazelMode, "--bazel-mode", BazelProdMode)
    IN  setBazelMode(s8, a.BazelModeStaging, "--bazel-mode-staging", BazelStagingMode)

\* The nine calls of setBuildMode and setBazelMode NewConfig makes, in order.
SelectBuildMode(a, mode) ==
    LET s1 == setBuildMode(ModeStart(mode), a.SymlinkForestMarker, SymlinkForest)
        s2 == setBuildMode(s1, a.Bp2buildMarker, Bp2build)
        s3 == setBuildMode(s2, a.BazelQueryViewDir, GenerateQueryView)
        s4 == setBuildMode(s3, a.BazelApiBp2buildDir, ApiBp2build)
        s5 == setBuildMode(s4, a.ModuleGraphFile, GenerateModuleGraph)
        s6 == setBuildMode(s5, a.DocFile, GenerateDocFile)
        s7 == setBazelMode(s6, a.BazelModeDev, "--bazel-mode-dev", BazelDevMode)
        s8 == setBazelMode(s7, a.BazelMode, "--bazel-mode", BazelProdMode)
    IN  setBazelMode(s8, a.BazelModeStaging, "--bazel-mode-staging", BazelStagingMode)

\* ---- targets

\* The OS types of the targets: the build host, the device, the common OS.
BuildOS == "linux_glibc"
Android == "android"
CommonOS == "common_os"
OsTypes == {BuildOS, Android, CommonOS}

\* The arch types and ArchType.Multilib of each.
ArchTypes == {"arm", "arm64", "riscv64", "x86", "x86_64"}
MultilibOf(archType) == IF archType \in {"arm", "x86"} THEN "lib32" ELSE "lib64"

\* Target{Os, Arch}
NewTarget(os, archType) ==
    [Os |-> os, ArchType |-> archType, Multilib |-> MultilibOf(archType)]

\* commonTargetMap[os.Name]
commonTarget(os) == [Os |-> os, ArchType |-> "common", Multilib |-> ""]

ZeroTarget == [Os |-> "", ArchType |-> "", Multilib |-> ""]

\* A map from OS to targets that has no key: every read gives the nil slice.
NoTargets == [os \in OsTypes |-> <<>>]

\* The names of the device architectures the product variables give: the
\* primary one and, with it, the secondary one.
DeviceArchNames(variables) ==
    IF String(variables.DeviceArch) = "" THEN <<>>
    ELSE <<String(variables.DeviceArch)>> \o
         (IF String(variables.DeviceSecondaryArch) = "" THEN <<>>
          ELSE <<String(variables.DeviceSecondaryArch)>>)

\* decodeTargetProductVariables: the host target and the device targets of
\* the product variables, or the error of a name that is no architecture.
decodeTargetProductVariables(variables) ==
    LET names == DeviceArchNames(variables)
        bad == {i \in 1..Len(names) : names[i] \notin ArchTypes}
    IN  IF bad # {}
        THEN [err |-> <<"unknown arch ", names[CHOOSE i \in bad : \A j \in bad : i <= j]>>,
              targets |-> NoTargets]
        ELSE [err |-> NoError,
              targets |-> [NoTargets EXCEPT
                  ![BuildOS] = <<NewTarget(BuildOS, "x86_64")>>,
                  ![Android] = [i \in 1..Len(names) |-> NewTarget(Android, names[i])]]]

\* getNdkAbisConfig, getAmlAbisConfig: the two presets of device architectures.
getNdkAbisConfig == <<"arm64", "arm", "riscv64", "x86_64", "x86">>
getAmlAbisConfig == <<"arm64", "arm", "x86_64", "x86">>

\* decodeAndroidArchSettings
decodeAndroidArchSettings(archConfig) ==
    [i \in 1..Len(archConfig) |-> NewTarget(Android, archConfig[i])]

\* A loop that takes the arch type, not its multilib class, as what is claimed.
RECURSIVE multilibConflictsFrom_ByArchType(_, _, _, _)
multilibConflictsFrom_ByArchType(targets, i, multilib, conflicts) ==
    IF i > Len(targets) THEN conflicts
    ELSE LET target == targets[i] IN
         multilibConflictsFrom_ByArchType(targets, i + 1, multilib \cup {target.ArchType},
             IF target.ArchType \in multilib
             THEN conflicts \cup {target.ArchType} ELSE conflicts)

\* NewConfig, the loop over targets[Android] from its i-th target on:
\* multilib is the set of classes seen, conflicts the arch types recorded.
RECURSIVE multilibConflictsFrom(_, _, _, _)
multilibConflictsFrom(targets, i, multilib, conflicts) ==
    IF i > Len(targets) THEN conflicts
    ELSE LET target == targets[i] IN
         multilibConflictsFrom(targets, i + 1, multilib \cup {target.Multilib},
             IF target.Multilib \in multilib
             THEN conflicts \cup {target.ArchType} ELSE conflicts)

\* getCommonTargets: the common target of every OS of the list, in order.
RECURSIVE getCommonTargetsFrom(_, _, _)
getCommonTargetsFrom(targets, i, set) ==
    IF i > Len(targets) THEN <<>>
    ELSE IF targets[i].Os \in set
         THEN getCommonTargetsFrom(targets, i + 1, set)
         ELSE <<commonTarget(targets[i].Os)>> \o
              getCommonTargetsFrom(targets, i + 1, set \cup {targets[i].Os})

getCommonTargets(targets) == getCommonTargetsFrom(targets, 1, {})

\* filterMultilibTargets: the targets of one multilib class, in order.
filterMultilibTargets(targets, multilib) ==
    SelectSeq(targets, LAMBDA t : t.Multilib = multilib)

\* FirstTarget, the inner loop over the targets of one class from the i-th
\* on: a target of an OS not in the result yet is appended.
RECURSIVE FirstTargetOfClass(_, _, _)
FirstTargetOfClass(buildTargets, i, st) ==
    IF i > Len(buildTargets) THEN st
    ELSE IF buildTargets[i].Os \in st.set
         THEN FirstTargetOfClass(buildTargets, i + 1, st)
         ELSE FirstTargetOfClass(buildTargets, i + 1,
                  [ret |-> Append(st.ret, buildTargets[i]),
                   set |-> st.set \cup {buildTargets[i].Os}])

\* FirstTarget, the outer loop over the filters from the f-th on.
RECURSIVE FirstTargetFrom(_, _, _, _)
FirstTargetFrom(targets, filters, f, st) ==
    IF f > Len(filters) THEN st.ret
    ELSE FirstTargetFrom(targets, filters, f + 1,
             FirstTargetOfClass(filterMultilibTargets(targets, filters[f]), 1, st))

\* FirstTarget(targets, filters...): the first target of each OS, looked for
\* in the class of the first filter, then of the next.
FirstTarget(targets, filters) ==
    FirstTargetFrom(targets, filters, 1, [ret |-> <<>>, set |-> {}])

\* A variant that asks for the 32-bit class first.
AndroidTargetSlots_Prefer32(targets) ==
    IF Len(targets) > 0
    THEN [AndroidCommonTarget |-> getCommonTargets(targets)[1],
          AndroidFirstDeviceTarget |-> FirstTarget(targets, <<"lib32", "lib64">>)[1]]
    ELSE [AndroidCommonTarget |-> ZeroTarget, AndroidFirstDeviceTarget |-> ZeroTarget]

\* NewConfig, the compilation targets for Android.
AndroidTargetSlots(targets) ==
    IF Len(targets) > 0
    THEN [AndroidCommonTarget |-> getCommonTargets(targets)[1],
          AndroidFirstDeviceTarget |-> FirstTarget(targets, <<"lib64", "lib32">>)[1]]
    ELSE [AndroidCommonTarget |-> ZeroTarget, AndroidFirstDeviceTarget |-> ZeroTarget]

\* A NewConfig that asks AmlAbis before NdkAbis.
ResolveTargets_AmlFirst(variables) ==
    LET d == decodeTargetProductVariables(variables)
        archConfig == IF Bool(variables.Aml_abis) THEN getAmlAbisConfig
                      ELSE IF Bool(variables.Ndk_abis) THEN getNdkAbisConfig
                      ELSE <<>>
        targets == [d.targets EXCEPT
                       ![CommonOS] = <<commonTarget(CommonOS)>>,
                       ![Android] = IF archConfig # <<>>
                                    THEN decodeAndroidArchSettings(archConfig) ELSE @]
        slots == AndroidTargetSlots(targets[Android])
    IN  IF d.err # NoError
        THEN [err |-> d.err, Targets |-> NoTargets, multilibConflicts |-> {},
              AndroidCommonTarget |-> ZeroTarget, AndroidFirstDeviceTarget |-> ZeroTarget]
        ELSE [err |-> NoError, Targets |-> targets,
              multilibConflicts |-> multilibConflictsFrom(targets[Android], 1, {}, {}),
              AndroidCommonTarget |-> slots.AndroidCommonTarget,
              AndroidFirstDeviceTarget |-> slots.AndroidFirstDeviceTarget]

\* NewConfig from decodeTargetProductVariables to the target slots: the
\* error it returns, or the fields of the config it sets.
ResolveTargets(variables) ==
    LET d == decodeTargetProductVariables(variables)
        archConfig == IF Bool(variables.Ndk_abis) THEN getNdkAbisConfig
                      ELSE IF Bool(variables.Aml_abis) THEN getAmlAbisConfig
                      ELSE <<>>
        targets == [d.targets EXCEPT
                       ![CommonOS] = <<commonTarget(CommonOS)>>,
                       ![Android] = IF archConfig # <<>>
                                    THEN decodeAndroidArchSettings(archConfig) ELSE @]
        slots == AndroidTargetSlots(targets[Android])
    IN  IF d.err # NoError
        THEN [err |-> d.err, Targets |-> NoTargets, multilibConflicts |-> {},
              AndroidCommonTarget |-> ZeroTarget, AndroidFirstDeviceTarget |-> ZeroTarget]
        ELSE [err |-> NoError, Targets |-> targets,
              multilibConflicts |-> multilibConflictsFrom(targets[Android], 1, {}, {}),
              AndroidCommonTarget |-> slots.AndroidCommonTarget,
              AndroidFirstDeviceTarget |-> slots.AndroidFirstDeviceTarget]

\* config.HasMultilibConflict
HasMultilibConflict(arch) == arch \in multilibConflicts

NoResult == [kind |-> "none", err |-> NoError]
Returned(err) ==
    [kind |-> IF err = NoError THEN "ok" ELSE "error", err |-> err]
Exited(stderr) == [kind |-> "exit", err |-> stderr]

BuildDirError == <<"Build dir must not contain source directory">>

\* NewConfig, the soundness check of the build and source directories.
NewConfig_CheckDirs ==
    /\ pc = "start"
    /\ IF HasPrefix(absSrcDir, cmdArgs.SoongOutDir)
       THEN pc' = "done" /\ result' = Returned(BuildDirError)
       ELSE pc' = "load" /\ UNCHANGED result
    /\ UNCHANGED <<cmdArgs, BuildMode, productVariables, cfgFile, ioFault, written>>
    /\ UNCHANGED <<opened, exported, acc, targetVars, moduleVars, persistVars, runVars, lockVars>>
    /\ UNCHANGED <<envVars, onceVars>>

\* NewConfig, loadConfig(config).
NewConfig_Load ==
    /\ pc = "load"
    /\ LET l == loadFromConfigFile(productVariables,
                    Join(cmdArgs.SoongOutDir, productVariablesFileName),
                    cfgFile, ioFault)
       IN  /\ productVariables' = l.pv
           /\ cfgFile' = l.file
           /\ written' = written \cup l.written
           /\ IF l.err # NoError
              THEN pc' = "done" /\ result' = Returned(l.err)
              ELSE pc' = "targets" /\ UNCHANGED result
           /\ exported' = IF "product_variable_constants.bzl" \in l.written
                          THEN ProductVariableConstants ELSE exported
    /\ opened' = TRUE
    /\ UNCHANGED <<cmdArgs, BuildMode, ioFault>>
    /\ UNCHANGED <<acc, targetVars, moduleVars, persistVars, runVars, lockVars>>
    /\ UNCHANGED <<envVars, onceVars>>

\* NewConfig, the targets: decodeTargetProductVariables, the presets, the
\* multilib conflicts and the target slots.
NewConfig_ResolveTargets ==
    /\ pc = "targets"
    /\ LET r == ResolveTargets(productVariables)
       IN  /\ IF r.err # NoError
              THEN pc' = "done" /\ result' = Returned(r.err)
              ELSE pc' = "mode" /\ UNCHANGED result
           /\ Targets' = r.Targets
           /\ multilibConflicts' = r.multilibConflicts
           /\ AndroidCommonTarget' = r.AndroidCommonTarget
           /\ AndroidFirstDeviceTarget' = r.AndroidFirstDeviceTarget
    /\ UNCHANGED <<cmdArgs, BuildMode, productVariables, cfgFile, ioFault, written>>
    /\ UNCHANGED <<opened, exported, acc, moduleVars, persistVars, runVars, lockVars>>
    /\ UNCHANGED <<envVars, onceVars>>

\* NewConfig, the selection of the build mode, to its return.
NewConfig_SelectMode ==
    /\ pc = "mode"
    /\ LET st == SelectBuildMode(cmdArgs.mode, BuildMode)
       IN  /\ BuildMode' = st.BuildMode
           /\ result' = IF st.exited THEN Exited(st.stderr) ELSE Returned(NoError)
           /\ bazelForceEnabledModules' =
                 IF st.exited THEN bazelForceEnabledModules
                 ELSE bazelForceEnabledModules
                        \cup ForceEnabledModules(cmdArgs.BazelForceEnabledModules)
    /\ pc' = "done"
    /\ UNCHANGED <<cmdArgs, productVariables, cfgFile, ioFault, written>>
    /\ UNCHANGED <<opened, exported, acc, targetVars, persistVars, runVars, lockVars>>
    /\ UNCHANGED <<mixedBuildEnabledModules, mixedBuildDisabledModules>>
    /\ UNCHANGED <<envVars, onceVars>>

NextNewConfig ==
    \/ NewConfig_CheckDirs
    \/ NewConfig_Load
    \/ NewConfig_ResolveTargets
    \/ NewConfig_SelectMode

(***************************************************************************)
(* loadFromConfigFile and saveToConfigFile statement by statement, run by  *)
(* several processes on one output directory.  A name of the directory     *)
(* names a file (0: there is no such name); a file is named by the process *)
(* that created it and holds the bytes written to it so far, whatever name *)
(* it has by now.                                                          *)
(***************************************************************************)

\* Number of processes that load from the same output directory at once.
NumProcs == 2
Procs == 1..NumProcs

\* The bytes of json.MarshalIndent of the defaults, and a part of them.
DefaultsJson == "{defaults}"
TruncatedJson == "{defa"

\* The directory before any process has run: no file, no temp file.
EmptyDir ==
    [target |-> 0, temp |-> [p \in Procs |-> 0], bytes |-> [p \in Procs |-> <<>>]]

IdleProc == [pc |-> "open", err |-> NoError]

\* What os.Open and a read to the end find at the product variables path.
ReadTarget ==
    IF disk.target = 0 THEN [exists |-> FALSE, bytes |-> <<>>]
    ELSE [exists |-> TRUE, bytes |-> disk.bytes[disk.target]]

\* json.Decoder.Decode accepts the bytes: one whole document, with or
\* without the newline after it.
Decodes(bytes) == bytes = <<DefaultsJson>> \/ bytes = <<DefaultsJson, "\n">>

\* loadFromConfigFile, os.Open: a missing file sends the process to write the
\* defaults; a file that is there is decoded.
LoadOpen(p) ==
    /\ proc[p].pc = "open"
    /\ LET r == ReadTarget IN
       /\ seen' = seen \cup {r}
       /\ proc' = [proc EXCEPT ![p] =
             IF ~r.exists THEN [pc |-> "createTemp", err |-> NoError]
             ELSE IF Decodes(r.bytes) THEN [pc |-> "loaded", err |-> NoError]
             ELSE [pc |-> "failed",
                   err |-> <<"config file: ", "soong.variables",
                             " did not parse correctly: ", "unexpected end of JSON input">>]]
    /\ UNCHANGED disk

\* A saveToConfigFile that creates the product variables file itself and
\* writes into it.
SaveCreateTemp_InPlace(p, ok) ==
    /\ proc[p].pc = "createTemp"
    /\ IF ok
       THEN /\ disk' = [disk EXCEPT !.target = p, !.bytes[p] = <<>>]
            /\ proc' = [proc EXCEPT ![p].pc = "write"]
       ELSE /\ UNCHANGED disk
            /\ proc' = [proc EXCEPT ![p] =
                  [pc |-> "failed",
                   err |-> <<"cannot create empty config file ", "soong.variables",
                             ": ", IoError>>]]
    /\ UNCHANGED seen

\* saveToConfigFile, os.CreateTemp(filepath.Dir(filename), "config"): a new
\* empty file under a name no other file has.
SaveCreateTemp(p, ok) ==
    /\ proc[p].pc = "createTemp"
    /\ IF ok
       THEN /\ disk' = [disk EXCEPT !.temp[p] = p, !.bytes[p] = <<>>]
            /\ proc' = [proc EXCEPT ![p].pc = "write"]
       ELSE /\ UNCHANGED disk
            /\ proc' = [proc EXCEPT ![p] =
                  [pc |-> "failed",
                   err |-> <<"cannot create empty config file ", "soong.variables",
                             ": ", IoError>>]]
    /\ UNCHANGED seen

\* saveToConfigFile, f.Write(data): all the bytes, or some and an error.
SaveWrite(p, ok) ==
    /\ proc[p].pc = "write"
    /\ IF ok
       THEN /\ disk' = [disk EXCEPT !.bytes[p] = Append(@, DefaultsJson)]
            /\ proc' = [proc EXCEPT ![p].pc = "writeString"]
       ELSE /\ disk' = [disk EXCEPT !.bytes[p] = Append(@, TruncatedJson)]
            /\ proc' = [proc EXCEPT ![p] =
                  [pc |-> "remove",
                   err |-> <<"default config file: ", "soong.variables",
                             " could not be written: ", IoError>>]]
    /\ UNCHANGED seen

\* saveToConfigFile, f.WriteString("\n")
SaveWriteString(p, ok) ==
    /\ proc[p].pc = "writeString"
    /\ IF ok
       THEN /\ disk' = [disk EXCEPT !.bytes[p] = Append(@, "\n")]
            /\ proc' = [proc EXCEPT ![p].pc = "rename"]
       ELSE /\ UNCHANGED disk
            /\ proc' = [proc EXCEPT ![p] =
                  [pc |-> "remove",
                   err |-> <<"default config file: ", "soong.variables",
                             " could not be written: ", IoError>>]]
    /\ UNCHANGED seen

\* saveToConfigFile, f.Close() and os.Rename(f.Name(), filename): the temp
\* name is given up and the product variables path names its file, in one
\* step; a rename that fails changes nothing and is not looked at.
SaveRename(p, ok) ==
    /\ proc[p].pc = "rename"
    /\ disk' = IF ok /\ disk.temp[p] # 0
               THEN [disk EXCEPT !.target = disk.temp[p], !.temp[p] = 0]
               ELSE disk
    /\ proc' = [proc EXCEPT ![p].pc = "remove"]
    /\ UNCHANGED seen

\* saveToConfigFile returns: the deferred os.Remove(f.Name()).
SaveRemove(p) ==
    /\ proc[p].pc = "remove"
    /\ disk' = [disk EXCEPT !.temp[p] = 0]
    /\ proc' = [proc EXCEPT ![p].pc = IF proc[p].err = NoError THEN "loaded" ELSE "failed"]
    /\ UNCHANGED seen

\* Another program opens and reads the product variables file.
Reader ==
    /\ ReadTarget \notin seen
    /\ seen' = seen \cup {ReadTarget}
    /\ UNCHANGED <<disk, proc>>

\* What the steps above leave alone.
PersistFrame ==
    /\ UNCHANGED <<pc, cmdArgs, BuildMode, productVariables, cfgFile, ioFault, written, result>>
    /\ UNCHANGED <<opened, exported, acc, targetVars, moduleVars, runVars, lockVars>>
    /\ UNCHANGED <<envVars, onceVars>>

NextPersist ==
    \/ \E p \in Procs : LoadOpen(p) /\ PersistFrame
    \/ \E p \in Procs, ok \in BOOLEAN : SaveCreateTemp(p, ok) /\ PersistFrame
    \/ \E p \in Procs, ok \in BOOLEAN : SaveWrite(p, ok) /\ PersistFrame
    \/ \E p \in Procs, ok \in BOOLEAN : SaveWriteString(p, ok) /\ PersistFrame
    \/ \E p \in Procs, ok \in BOOLEAN : SaveRename(p, ok) /\ PersistFrame
    \/ \E p \in Procs : SaveRemove(p) /\ PersistFrame
    \/ Reader /\ PersistFrame

(***************************************************************************)
(* Memoization cache and its uses.                                         *)
(***************************************************************************)

\* Number of goroutines that call the memoized accessors.
NumCallers == 2
Callers == 1..NumCallers

OnceKeys == {"globalMixedBuildsSupport", "earlyBootJars",
             "VendorSnapshotDirsExcludedMap", "VendorSnapshotDirsIncludedMap",
             "RecoverySnapshotDirsExcludedMap", "RecoverySnapshotDirsIncludedMap"}

\* The two accessors of the included directories, and the call of the
\* accessor of the excluded directories each of them begins with.
IncludedMapOps == {"VendorSnapshotDirsIncludedMap", "RecoverySnapshotDirsIncludedMap"}
ExcludedMapOf(op) ==
    IF op = "VendorSnapshotDirsIncludedMap"
    THEN "VendorSnapshotDirsIncludedMap.excludedMap"
    ELSE "RecoverySnapshotDirsIncludedMap.excludedMap"

OnceOps == {"IsMixedBuildsEnabled", "BootJars", "VendorSnapshotDirsExcludedMap",
            "RecoverySnapshotDirsExcludedMap"}
           \cup IncludedMapOps \cup {ExcludedMapOf(op) : op \in IncludedMapOps}

\* The key each accessor passes to Once.
OnceKeyOf(op) ==
    CASE op = "IsMixedBuildsEnabled" -> "globalMixedBuildsSupport"
      [] op = "BootJars" -> "earlyBootJars"
      [] op \in {"VendorSnapshotDirsExcludedMap", "VendorSnapshotDirsIncludedMap.excludedMap"}
            -> "VendorSnapshotDirsExcludedMap"
      [] op = "VendorSnapshotDirsIncludedMap" -> "VendorSnapshotDirsIncludedMap"
      [] op \in {"RecoverySnapshotDirsExcludedMap", "RecoverySnapshotDirsIncludedMap.excludedMap"}
            -> "RecoverySnapshotDirsExcludedMap"
      [] op = "RecoverySnapshotDirsIncludedMap" -> "RecoverySnapshotDirsIncludedMap"

\* An entry of OncePer.values: absent, claimed by the caller that computes
\* ("waiting"), holding the stored value <<v>>, or left without a value by a
\* compute function that panicked ("failed").
AbsentEntry == [state |-> "absent", v |-> <<>>]
IdleCall == [op |-> "", pc |-> "idle", memo |-> <<>>, val |-> <<>>]

\* strings.Split(s, "/") of a path given as a sequence of characters
RECURSIVE SplitSlash(_, _, _)
SplitSlash(s, i, cur) ==
    IF i > Len(s) THEN <<cur>>
    ELSE IF s[i] = "/" THEN <<cur>> \o SplitSlash(s, i + 1, <<>>)
         ELSE SplitSlash(s, i + 1, Append(cur, s[i]))

DotDot == <<".", ".">>

\* The elements of a path that filepath.Clean keeps.
RECURSIVE CleanFold(_, _, _, _)
CleanFold(comps, i, stack, rooted) ==
    IF i > Len(comps) THEN stack
    ELSE LET e == comps[i] IN
         IF e = <<>> \/ e = <<".">>
         THEN CleanFold(comps, i + 1, stack, rooted)
         ELSE IF e = DotDot
         THEN IF Len(stack) > 0 /\ stack[Len(stack)] # DotDot
              THEN CleanFold(comps, i + 1, SubSeq(stack, 1, Len(stack) - 1), rooted)
              ELSE IF rooted
                   THEN CleanFold(comps, i + 1, stack, rooted)
                   ELSE CleanFold(comps, i + 1, Append(stack, e), rooted)
         ELSE CleanFold(comps, i + 1, Append(stack, e), rooted)

RECURSIVE JoinSlash(_)
JoinSlash(comps) ==
    IF comps = <<>> THEN <<>>
    ELSE IF Len(comps) = 1 THEN comps[1]
    ELSE comps[1] \o <<"/">> \o JoinSlash(Tail(comps))

\* filepath.Clean
Clean(s) ==
    IF s = <<>> THEN <<".">>
    ELSE LET rooted == s[1] = "/"
             body == JoinSlash(CleanFold(SplitSlash(s, 1, <<>>), 1, <<>>, rooted))
         IN  IF rooted THEN <<"/">> \o body
             ELSE IF body = <<>> THEN <<".">> ELSE body

\* createDirsMap(previous, dirs): the keys of the map built over dirs[i..],
\* or the error of the first duplicate.  A map[string]bool whose values are
\* all true is the set of its keys.
RECURSIVE createDirsMapFrom(_, _, _, _)
createDirsMapFrom(previous, dirs, i, retSoFar) ==
    IF i > Len(dirs) THEN [err |-> NoError, ret |-> retSoFar]
    ELSE LET clean == Clean(dirs[i]) IN
         IF clean \in previous \/ clean \in retSoFar
         THEN [err |-> <<"Duplicate entry ", dirs[i]>>, ret |-> {}]
         ELSE createDirsMapFrom(previous, dirs, i + 1, retSoFar \cup {clean})

\* A createDirsMap that does not look at the previous map.
createDirsMap_IgnoresPrevious(previous, dirs) == createDirsMapFrom({}, dirs, 1, {})

createDirsMap(previous, dirs) == createDirsMapFrom(previous, dirs, 1, {})

NoGetenv == [panicked |-> FALSE, val |-> "", deps |-> EmptyMap]

\* A compute function that does not look at SanitizeDevice.
globalMixedBuildsSupport_NoSanitizeDevice ==
    IF productVariables.DeviceArch # Nil /\ productVariables.DeviceArch[1] = "riscv64"
    THEN [panicked |-> FALSE, v |-> FALSE, envRead |-> FALSE, g |-> NoGetenv]
    ELSE LET g == GetenvCall("GLOBAL_THINLTO") IN
         IF g.panicked
         THEN [panicked |-> TRUE, v |-> FALSE, envRead |-> TRUE, g |-> g]
         ELSE [panicked |-> FALSE,
               v |-> ~ \/ isTrueString(g.val)
                       \/ Len(productVariables.SanitizeHost) > 0
                       \/ Len(productVariables.SanitizeDeviceDiag) > 0
                       \/ Len(productVariables.SanitizeDeviceArch) > 0,
               envRead |-> TRUE, g |-> g]

\* The compute function of IsMixedBuildsEnabled, in the current state.
\* panicked: it panics; v: its result; envRead: it called IsEnvTrue, with the
\* outcome g of that Getenv.
globalMixedBuildsSupport ==
    IF productVariables.DeviceArch # Nil /\ productVariables.DeviceArch[1] = "riscv64"
    THEN [panicked |-> FALSE, v |-> FALSE, envRead |-> FALSE, g |-> NoGetenv]
    ELSE LET g == GetenvCall("GLOBAL_THINLTO") IN
         IF g.panicked
         THEN [panicked |-> TRUE, v |-> FALSE, envRead |-> TRUE, g |-> g]
         ELSE [panicked |-> FALSE,
               v |-> ~ \/ isTrueString(g.val)
                       \/ Len(productVariables.SanitizeHost) > 0
                       \/ Len(productVariables.SanitizeDevice) > 0
                       \/ Len(productVariables.SanitizeDeviceDiag) > 0
                       \/ Len(productVariables.SanitizeDeviceArch) > 0,
               envRead |-> TRUE, g |-> g]

\* The compute function of BootJars.
earlyBootJars ==
    [panicked |-> FALSE,
     v |-> productVariables.BootJars \o productVariables.ApexBootJars,
     envRead |-> FALSE, g |-> NoGetenv]

\* The compute function createDirsMapOnce hands to Once.
createDirsMapCompute(previous, dirs) ==
    LET r == createDirsMap(previous, dirs) IN
    [panicked |-> r.err # NoError, v |-> r.ret, envRead |-> FALSE, g |-> NoGetenv]

\* The compute function of each accessor.
ComputeOf(op) ==
    CASE op = "IsMixedBuildsEnabled" -> globalMixedBuildsSupport
      [] op = "BootJars" -> earlyBootJars
      [] OnceKeyOf(op) = "VendorSnapshotDirsExcludedMap" ->
            createDirsMapCompute({}, productVariables.VendorSnapshotDirsExcluded)
      [] op = "VendorSnapshotDirsIncludedMap" ->
            createDirsMapCompute(onceValues["VendorSnapshotDirsExcludedMap"].v[1],
                                 productVariables.VendorSnapshotDirsIncluded)
      [] OnceKeyOf(op) = "RecoverySnapshotDirsExcludedMap" ->
            createDirsMapCompute({}, productVariables.RecoverySnapshotDirsExcluded)
      [] op = "RecoverySnapshotDirsIncludedMap" ->
            createDirsMapCompute(onceValues["RecoverySnapshotDirsExcludedMap"].v[1],
                                 productVariables.RecoverySnapshotDirsIncluded)

\* What the accessor returns, given the value Once returned.
ResultOf(op, memo) ==
    IF op = "IsMixedBuildsEnabled"
    THEN memo /\ (BuildMode = BazelProdMode \/ BuildMode = BazelDevMode
                    \/ BuildMode = BazelStagingMode)
    ELSE memo

\* Once(key, compute), entry: the caller looks the key up.  A stored value is
\* returned; a key nobody holds is claimed and the caller goes on to compute;
\* a claimed key is waited for.  An entry whose compute function panicked
\* holds no value: compute is not run again, the caller panics.
OnceLookup(c, op) ==
    LET key == OnceKeyOf(op)
        e == onceValues[key]
    IN  /\ IF e.state = "absent"
           THEN /\ onceValues' = [onceValues EXCEPT ![key] = [state |-> "waiting", v |-> <<>>]]
                /\ call' = [call EXCEPT ![c] = [IdleCall EXCEPT !.op = op, !.pc = "compute"]]
           ELSE /\ UNCHANGED onceValues
                /\ call' = [call EXCEPT ![c] =
                      IF e.state = "stored"
                      THEN [op |-> op, pc |-> "returned", memo |-> e.v,
                            val |-> <<ResultOf(op, e.v[1])>>]
                      ELSE IF e.state = "waiting"
                           THEN [IdleCall EXCEPT !.op = op, !.pc = "wait"]
                           ELSE [IdleCall EXCEPT !.op = op, !.pc = "panicked"]]
        /\ UNCHANGED <<computeCount, envVars, cfgVars>>

\* An accessor is called and calls Once.
OnceEnter(c, op) == call[c].pc = "idle" /\ OnceLookup(c, op)

\* Once, the caller that claimed the key runs compute and stores its result.
OnceCompute(c) ==
    LET op == call[c].op
        key == OnceKeyOf(op)
        o == ComputeOf(op)
    IN  /\ call[c].pc = "compute"
        /\ computeCount' = [computeCount EXCEPT ![key] = @ + 1]
        /\ IF o.envRead
           THEN /\ GetenvEffect("GLOBAL_THINLTO", o.g)
                /\ ret' = [op |-> "IsEnvTrue", key |-> "GLOBAL_THINLTO", val |-> o.g.val,
                           bool |-> ~o.g.panicked /\ isTrueString(o.g.val),
                           panicked |-> o.g.panicked]
           ELSE UNCHANGED envVars
        /\ IF o.panicked
           THEN /\ onceValues' = [onceValues EXCEPT ![key] = [state |-> "failed", v |-> <<>>]]
                /\ call' = [call EXCEPT ![c].pc = "panicked"]
           ELSE /\ onceValues' = [onceValues EXCEPT ![key] = [state |-> "stored", v |-> <<o.v>>]]
                /\ call' = [call EXCEPT ![c] = [op |-> op, pc |-> "returned", memo |-> <<o.v>>,
                                                  val |-> <<ResultOf(op, o.v)>>]]
        /\ UNCHANGED cfgVars

\* Once, a caller that waited gets the value stored meanwhile.
OnceWake(c) ==
    LET op == call[c].op
        e == onceValues[OnceKeyOf(op)]
    IN  /\ call[c].pc = "wait"
        /\ e.state \in {"stored", "failed"}
        /\ call' = [call EXCEPT ![c] =
              IF e.state = "stored"
              THEN [op |-> op, pc |-> "returned", memo |-> e.v,
                    val |-> <<ResultOf(op, e.v[1])>>]
              ELSE [IdleCall EXCEPT !.op = op, !.pc = "panicked"]]
        /\ UNCHANGED <<onceValues, computeCount, envVars, cfgVars>>

\* The caller is done with the result and may call again.
CallDone(c) ==
    /\ call[c].pc \in {"returned", "panicked"}
    /\ ~(call[c].pc = "returned" /\ call[c].op \in {ExcludedMapOf(op) : op \in IncludedMapOps})
    /\ call' = [call EXCEPT ![c] = IdleCall]
    /\ UNCHANGED <<onceValues, computeCount, envVars, cfgVars>>

\* An IsMixedBuildsEnabled that runs its compute function itself and stores
\* the result, without claiming the key first.
IsMixedBuildsEnabled_Unclaimed(c) ==
    /\ call[c].pc = "idle"
    /\ call' = [call EXCEPT ![c] = [IdleCall EXCEPT !.op = "IsMixedBuildsEnabled",
                                                   !.pc = "compute"]]
    /\ UNCHANGED <<onceValues, computeCount, envVars, cfgVars>>

IsMixedBuildsEnabled(c) == OnceEnter(c, "IsMixedBuildsEnabled")

BootJars(c) == OnceEnter(c, "BootJars")

VendorSnapshotDirsExcludedMap(c) == OnceEnter(c, "VendorSnapshotDirsExcludedMap")

RecoverySnapshotDirsExcludedMap(c) == OnceEnter(c, "RecoverySnapshotDirsExcludedMap")

\* VendorSnapshotDirsIncludedMap, RecoverySnapshotDirsIncludedMap: the call
\* begins with the accessor of the excluded directories.
SnapshotDirsIncludedMap(c, op) == OnceEnter(c, ExcludedMapOf(op))

\* The accessor has the excluded map and calls createDirsMapOnce with it.
SnapshotDirsIncludedMapOnce(c, op) ==
    /\ call[c].op = ExcludedMapOf(op) /\ call[c].pc = "returned"
    /\ OnceLookup(c, op)

(***************************************************************************)
(* The values derived from the environment: the accessors of config.go and *)
(* the package variables of cc/config (global.go), and two runs of the     *)
(* program that derive them, each from its own process environment.        *)
(***************************************************************************)

\* strconv.ParseBool
ParseBool(str) ==
    IF str \in {"1", "t", "T", "TRUE", "true", "True"} THEN [ok |-> TRUE, val |-> TRUE]
    ELSE IF str \in {"0", "f", "F", "FALSE", "false", "False"} THEN [ok |-> TRUE, val |-> FALSE]
    ELSE [ok |-> FALSE, val |-> FALSE]

\* The strings of the environments below that strconv.ParseUint(v, 0, 0) accepts.
UintStrings == {"500"}

\* path.Join of two clean pieces
PathJoin(a, b) == IF a = "" THEN b ELSE IF b = "" THEN a ELSE a \o "/" \o b

\* The JSON files under the build top, decoded: sdclang.json has a default
\* block and a block for the product "dev", and does not set SDCLANG.
SdclangFiles ==
    [f \in {"sdclang.json", "ae.json"} |->
       IF f = "ae.json"
       THEN [k \in {"SDCLANG_AE_FLAG"} |-> "-ae"]
       ELSE [b \in {"default", "dev"} |->
               IF b = "default"
               THEN [k \in {"SDCLANG_PATH", "SDCLANG_PATH_2", "SDCLANG_FLAGS"} |->
                       CASE k = "SDCLANG_PATH" -> "sd/bin"
                         [] k = "SDCLANG_PATH_2" -> "sd2/bin"
                         [] k = "SDCLANG_FLAGS" -> "-O2"]
               ELSE [k \in {"SDCLANG_PATH"} |-> "dev/bin"]]]

\* android.SdclangEnv of a process with the environment environ.
SdclangEnvOf(environ) == environ

\* the blocks of setSdclangVars that read the fields of devConfig
SdclangBlock(devConfig, required, sd) ==
    [panicked |-> sd.panicked
                  \/ (required /\ "SDCLANG_PATH" \notin DOMAIN devConfig)
                  \/ (required /\ "SDCLANG_PATH_2" \notin DOMAIN devConfig),
     sdclangAEFlag |-> sd.sdclangAEFlag,
     sdclangPath |-> IF "SDCLANG_PATH" \in DOMAIN devConfig
                     THEN devConfig["SDCLANG_PATH"] ELSE sd.sdclangPath,
     sdclangPath2 |-> IF "SDCLANG_PATH_2" \in DOMAIN devConfig
                      THEN devConfig["SDCLANG_PATH_2"] ELSE sd.sdclangPath2,
     sdclangFlags |-> IF "SDCLANG_FLAGS" \in DOMAIN devConfig
                      THEN devConfig["SDCLANG_FLAGS"] ELSE sd.sdclangFlags,
     sdclangFlags2 |-> IF "SDCLANG_FLAGS_2" \in DOMAIN devConfig
                       THEN devConfig["SDCLANG_FLAGS_2"] ELSE sd.sdclangFlags2]

\* setSdclangVars, run by init() of cc/config: what the closures of SDClangBin,
\* SDClangBin2, SDClangFlags and SDClangFlags2 capture, or the panic.
setSdclangVars(SdclangEnv) ==
    LET product == MapGet(SdclangEnv, "TARGET_PRODUCT")
        androidRoot == MapGet(SdclangEnv, "ANDROID_BUILD_TOP")
        aeConfigPath == MapGet(SdclangEnv, "SDCLANG_AE_CONFIG")
        sdclangConfigPath == MapGet(SdclangEnv, "SDCLANG_CONFIG")
        sdclangSA == MapGet(SdclangEnv, "SDCLANG_SA_ENABLED")
        aeConfigFile == PathJoin(androidRoot, aeConfigPath)
        sdclangConfigFile == PathJoin(androidRoot, sdclangConfigPath)
        sd0 == [panicked |-> FALSE,
                sdclangAEFlag |-> IF aeConfigFile \in DOMAIN SdclangFiles
                                  THEN MapGet(SdclangFiles[aeConfigFile], "SDCLANG_AE_FLAG")
                                  ELSE "",
                sdclangPath |-> "", sdclangPath2 |-> "",
                sdclangFlags |-> "", sdclangFlags2 |-> ""]
        sd3 == IF sdclangConfigFile \notin DOMAIN SdclangFiles THEN sd0
               ELSE LET config == SdclangFiles[sdclangConfigFile] IN
                    IF "default" \notin DOMAIN config
                    THEN [sd0 EXCEPT !.panicked = TRUE]
                    ELSE LET sd1 == SdclangBlock(config["default"], TRUE, sd0)
                             sd2 == IF product \in DOMAIN config
                                    THEN SdclangBlock(config[product], FALSE, sd1)
                                    ELSE sd1
                         IN  IF ParseBool(sdclangSA).val
                             THEN [sd2 EXCEPT !.sdclangFlags =
                                     sd2.sdclangFlags \o " " \o "--compile-and-analyze"
                                         \o " " \o androidRoot \o "/" \o "llvmsa"]
                             ELSE sd2
    IN  [sd3 EXCEPT !.panicked =
            \/ sd3.panicked
            \/ (sd3.sdclangPath = "" /\ MapGet(SdclangEnv, "SDCLANG_PATH") = "")
            \/ (sd3.sdclangPath2 = "" /\ MapGet(SdclangEnv, "SDCLANG_PATH_2") = "")]

DefaultWrapperPath == "prebuilts/remoteexecution-client/live/rewrapper"
xrefJavaSourceFileMaxDefault == "1000"
ClangDefaultBase == "prebuilts/clang/host"
ClangDefaultVersion == "clang-4691093"
ClangDefaultShortVersion == "6.0.2"

\* The values a run derives, in the order it derives them.
ConfigValues ==
    <<"RBEWrapper", "XrefCorpusName", "XrefCuEncoding", "XrefCuJavaSourceMax",
      "RunErrorProne", "CcWrapper", "ClangBase", "ClangVersion", "ClangShortVersion",
      "SDClangBin", "SDClangBin2", "SDClangFlags", "SDClangFlags2">>

\* The name each of them gives to Getenv.
EnvNameOf(v) ==
    CASE v = "RBEWrapper" -> "RBE_WRAPPER"
      [] v = "XrefCorpusName" -> "XREF_CORPUS"
      [] v = "XrefCuEncoding" -> "KYTHE_KZIP_ENCODING"
      [] v = "XrefCuJavaSourceMax" -> "KYTHE_JAVA_SOURCE_BATCH_SIZE"
      [] v = "RunErrorProne" -> "RUN_ERROR_PRONE"
      [] v = "CcWrapper" -> "CC_WRAPPER"
      [] v = "ClangBase" -> "LLVM_PREBUILTS_BASE"
      [] v = "ClangVersion" -> "LLVM_PREBUILTS_VERSION"
      [] v = "ClangShortVersion" -> "LLVM_RELEASE_VERSION"
      [] v = "SDClangBin" -> "SDCLANG_PATH"
      [] v = "SDClangBin2" -> "SDCLANG_PATH_2"
      [] v = "SDClangFlags" -> "SDCLANG_COMMON_FLAGS"
      [] v = "SDClangFlags2" -> "SDCLANG_COMMON_FLAGS_2"

\* What each of them makes of the value e that Getenv returned; sd is what
\* setSdclangVars left for the closures.
ValueOf(v, e, sd) ==
    CASE v = "RBEWrapper" -> IF e = "" THEN DefaultWrapperPath ELSE e
      [] v = "XrefCorpusName" -> e
      [] v = "XrefCuEncoding" -> IF e # "" THEN e ELSE "json"
      [] v = "XrefCuJavaSourceMax" ->
            IF e = "" THEN xrefJavaSourceFileMaxDefault
            ELSE IF e \notin UintStrings THEN xrefJavaSourceFileMaxDefault ELSE e
      [] v = "RunErrorProne" -> isTrueString(e)
      [] v = "CcWrapper" -> IF e # "" THEN e \o " " ELSE ""
      [] v = "ClangBase" -> IF e # "" THEN e ELSE "${ClangDefaultBase}"
      [] v = "ClangVersion" -> IF e # "" THEN e ELSE ClangDefaultVersion
      [] v = "ClangShortVersion" -> IF e # "" THEN e ELSE ClangDefaultShortVersion
      [] v = "SDClangBin" -> IF e # "" THEN e ELSE sd.sdclangPath
      [] v = "SDClangBin2" -> IF e # "" THEN e ELSE sd.sdclangPath2
      [] v = "SDClangFlags" -> IF e # "" THEN e ELSE sd.sdclangAEFlag \o " " \o sd.sdclangFlags
      [] v = "SDClangFlags2" -> IF e # "" THEN e ELSE sd.sdclangAEFlag \o " " \o sd.sdclangFlags2

Runs == 1..2

\* A process that has not run init() yet.
NewRun(environ) ==
    [environ |-> environ, pc |-> "init", next |-> 1,
     sd |-> [panicked |-> FALSE, sdclangAEFlag |-> "", sdclangPath |-> "",
             sdclangPath2 |-> "", sdclangFlags |-> "", sdclangFlags2 |-> ""],
     envDeps |-> EmptyMap, envFrozen |-> FALSE,
     vals |-> [i \in 1..Len(ConfigValues) |-> <<>>],
     deps |-> EmptyMap]

\* What the steps of a run leave alone.
RunsFrame ==
    /\ UNCHANGED <<pc, cmdArgs, BuildMode, productVariables, cfgFile, ioFault, written, result>>
    /\ UNCHANGED <<opened, exported, acc, targetVars, moduleVars, persistVars, lockVars>>
    /\ UNCHANGED <<envVars, onceVars>>

\* init() of cc/config in the run r
RunInit(r) ==
    /\ runs[r].pc = "init"
    /\ LET sd == setSdclangVars(SdclangEnvOf(runs[r].environ)) IN
       runs' = [runs EXCEPT ![r].sd = sd,
                            ![r].pc = IF sd.panicked THEN "panicked" ELSE "eval"]
    /\ RunsFrame

\* The run r derives its next value.
RunEvaluate(r) ==
    /\ runs[r].pc = "eval"
    /\ runs[r].next <= Len(ConfigValues)
    /\ LET v == ConfigValues[runs[r].next]
           g == GetenvOn([env |-> runs[r].environ, envDeps |-> runs[r].envDeps,
                          envFrozen |-> runs[r].envFrozen], EnvNameOf(v))
       IN  runs' = [runs EXCEPT ![r].envDeps = g.deps,
                                ![r].vals[runs[r].next] = <<ValueOf(v, g.val, runs[r].sd)>>,
                                ![r].next = runs[r].next + 1]
    /\ RunsFrame

\* The run r calls EnvDeps and writes the mapping out for the next run to
\* compare with.
RunEnvDeps(r) ==
    /\ runs[r].pc = "eval"
    /\ runs' = [runs EXCEPT ![r].envFrozen = TRUE,
                            ![r].deps = runs[r].envDeps,
                            ![r].pc = "done"]
    /\ RunsFrame

NextRuns == \E r \in Runs : RunInit(r) \/ RunEvaluate(r) \/ RunEnvDeps(r)

(***************************************************************************)
(* Operations on the Config NewConfig returned.                            *)
(***************************************************************************)

\* What the operations below leave alone.
UseFrame ==
    /\ UNCHANGED <<pc, cmdArgs, BuildMode, cfgFile, ioFault, written, result>>
    /\ UNCHANGED <<opened, exported, targetVars, persistVars, runVars, lockVars>>
    /\ UNCHANGED <<envVars, onceVars>>

\* A setter that also takes the boot jars away.
SetAllowMissingDependencies_ClearsJars ==
    /\ pc = "done" /\ result.kind = "ok"
    /\ productVariables' = [productVariables EXCEPT
                               !.Allow_missing_dependencies = BoolPtr(TRUE),
                               !.BootJars = <<>>]
    /\ acc' = [op |-> "SetAllowMissingDependencies", val |-> FALSE]
    /\ UNCHANGED moduleVars
    /\ UseFrame

\* config.SetAllowMissingDependencies
SetAllowMissingDependencies ==
    /\ pc = "done" /\ result.kind = "ok"
    /\ productVariables' = [productVariables EXCEPT
                               !.Allow_missing_dependencies = BoolPtr(TRUE)]
    /\ acc' = [op |-> "SetAllowMissingDependencies", val |-> FALSE]
    /\ UNCHANGED moduleVars
    /\ UseFrame

\* config.AllowMissingDependencies
AllowMissingDependencies ==
    /\ pc = "done" /\ result.kind = "ok"
    /\ acc' = [op |-> "AllowMissingDependencies",
               val |-> Bool(productVariables.Allow_missing_dependencies)]
    /\ UNCHANGED <<productVariables, moduleVars>>
    /\ UseFrame

\* config.LogMixedBuild, with the name of the module of ctx
LogMixedBuild(moduleName, useBazel) ==
    /\ pc = "done" /\ result.kind = "ok"
    /\ IF useBazel
       THEN /\ mixedBuildEnabledModules' = mixedBuildEnabledModules \cup {moduleName}
            /\ UNCHANGED mixedBuildDisabledModules
       ELSE /\ mixedBuildDisabledModules' = mixedBuildDisabledModules \cup {moduleName}
            /\ UNCHANGED mixedBuildEnabledModules
    /\ acc' = [op |-> "LogMixedBuild", val |-> useBazel]
    /\ UNCHANGED <<productVariables, bazelForceEnabledModules>>
    /\ UseFrame

\* config.AddForceEnabledModules
AddForceEnabledModules(forceEnabled) ==
    /\ pc = "done" /\ result.kind = "ok"
    /\ bazelForceEnabledModules' =
          bazelForceEnabledModules \cup {forceEnabled[i] : i \in 1..Len(forceEnabled)}
    /\ acc' = [op |-> "AddForceEnabledModules", val |-> FALSE, arg |-> forceEnabled]
    /\ UNCHANGED <<productVariables, mixedBuildEnabledModules, mixedBuildDisabledModules>>
    /\ UseFrame

\* InList(s, list) and HasAnyPrefix(s, prefixList) of util.go
InList(str, list) == \E i \in 1..Len(list) : list[i] = str
HasAnyPrefix(str, prefixList) == \E i \in 1..Len(prefixList) : HasPrefix(str, prefixList[i])

\* The directory the coverage of which is always off.
ExternalProtobuf == <<"e", "x", "t", "e", "r", "n", "a", "l", "/", "p", "r", "o", "t", "o", "b", "u", "f">>

\* A NativeCoverageEnabledForPath without the workaround for external/protobuf.
NativeCoverageEnabledForPathCall_NoWorkaround(variables, path) ==
    LET included ==
            /\ Len(variables.NativeCoveragePaths) > 0
            /\ \/ InList(<<"*">>, variables.NativeCoveragePaths)
               \/ HasAnyPrefix(path, variables.NativeCoveragePaths)
    IN  IF included /\ Len(variables.NativeCoverageExcludePaths) > 0
        THEN ~HasAnyPrefix(path, variables.NativeCoverageExcludePaths)
        ELSE included

\* deviceConfig.NativeCoverageEnabledForPath: the value returned for the
\* path (a sequence of characters) on the product variables.
NativeCoverageEnabledForPathCall(variables, path) ==
    LET included ==
            /\ Len(variables.NativeCoveragePaths) > 0
            /\ \/ InList(<<"*">>, variables.NativeCoveragePaths)
               \/ HasAnyPrefix(path, variables.NativeCoveragePaths)
    IN  IF included /\ Len(variables.NativeCoverageExcludePaths) > 0
        THEN /\ ~HasPrefix(path, ExternalProtobuf)
             /\ ~HasAnyPrefix(path, variables.NativeCoverageExcludePaths)
        ELSE included

NativeCoverageEnabledForPath(path) ==
    /\ pc = "done" /\ result.kind = "ok"
    /\ acc' = [op |-> "NativeCoverageEnabledForPath",
               val |-> NativeCoverageEnabledForPathCall(productVariables, path),
               path |-> path]
    /\ UNCHANGED <<productVariables, moduleVars>>
    /\ UseFrame

(***************************************************************************)
(* Specifications.                                                         *)
(***************************************************************************)

NoCall == [op |-> "", key |-> "", val |-> "", bool |-> FALSE, panicked |-> FALSE]

\* The ledger of a Config on which nothing was read yet.
FreshLedger ==
    /\ envDeps = EmptyMap
    /\ envDepsNil = TRUE
    /\ envFrozen = FALSE
    /\ ret = NoCall
    /\ depsRet = EmptyMap
    /\ firstRet = [n \in EnvNames |-> NoValue]
    /\ firstDeps = [called |-> FALSE, again |-> FALSE, deps |-> EmptyMap]

\* No worker is in a ledger call, the lock is free.
NoThreads ==
    /\ envLock = 0
    /\ thr = [t \in Threads |-> IdleThread]

\* No run of the program is followed from its start.
NoRuns == runs = <<>>

\* The cache of a Config on which nothing was called yet.
FreshCache ==
    /\ onceValues = [k \in OnceKeys |-> AbsentEntry]
    /\ computeCount = [k \in OnceKeys |-> 0]
    /\ call = [c \in Callers |-> IdleCall]

DefaultArgs == WithOutDir(NoModeArgs, OutDirInside)

\* What loading leaves when soong.variables does not exist and nothing fails.
LoadedDefaults ==
    loadFromConfigFile(ZeroVars, Join(OutDirInside, productVariablesFileName),
                       AbsentFile, "none")

NoAccess == [op |-> "", val |-> FALSE]
NoExport == <<>>

\* No process is loading: the directory is as NewConfig alone leaves it.
NoProcs ==
    /\ disk = EmptyDir
    /\ proc = [p \in Procs |-> IdleProc]
    /\ seen = {}

\* A Config as NewConfig returned it: the product variables pv, the mode.
Constructed(pv, mode) ==
    /\ opened = TRUE
    /\ exported = ProductVariableConstants
    /\ acc = NoAccess
    /\ Targets = ResolveTargets(pv).Targets
    /\ multilibConflicts = ResolveTargets(pv).multilibConflicts
    /\ AndroidFirstDeviceTarget = ResolveTargets(pv).AndroidFirstDeviceTarget
    /\ AndroidCommonTarget = ResolveTargets(pv).AndroidCommonTarget
    /\ bazelForceEnabledModules = ForceEnabledModules(DefaultArgs.BazelForceEnabledModules)
    /\ mixedBuildEnabledModules = {}
    /\ mixedBuildDisabledModules = {}
    /\ NoProcs
    /\ pc = "done"
    /\ cmdArgs = DefaultArgs
    /\ BuildMode = mode
    /\ productVariables = pv
    /\ cfgFile = LoadedDefaults.file
    /\ ioFault = "none"
    /\ written = LoadedDefaults.written
    /\ result = Returned(NoError)

\* NewConfig is about to run on the arguments a and the file f under fault.
BeforeNewConfig(a, f, fault) ==
    /\ opened = FALSE
    /\ exported = NoExport
    /\ acc = NoAccess
    /\ Targets = NoTargets
    /\ multilibConflicts = {}
    /\ AndroidFirstDeviceTarget = ZeroTarget
    /\ AndroidCommonTarget = ZeroTarget
    /\ bazelForceEnabledModules = {}
    /\ mixedBuildEnabledModules = {}
    /\ mixedBuildDisabledModules = {}
    /\ NoProcs
    /\ pc = "start"
    /\ cmdArgs = a
    /\ BuildMode = AnalysisNoBazel
    /\ productVariables = ZeroVars
    /\ cfgFile = f
    /\ ioFault = fault
    /\ written = {}
    /\ result = NoResult

\* The defaults GetenvWithDefault is called with.
DefaultValues == {"", "dflt"}

\* ---- the environment ledger of a constructed Config
NextEnv ==
    \/ \E key \in EnvNames : Getenv(key)
    \/ \E key \in EnvNames, d \in DefaultValues : GetenvWithDefault(key, d)
    \/ \E key \in EnvNames : IsEnvTrue(key)
    \/ \E key \in EnvNames : IsEnvFalse(key)
    \/ EnvDeps
    \/ \E key \in EnvNames, v \in FewValues : Setenv(key, v)
    \/ \E key \in EnvNames : Unsetenv(key)

InitEnv ==
    /\ env \in Environments(FewValues)
    /\ FreshLedger
    /\ FreshCache
    /\ NoRuns
    /\ NoThreads
    /\ Constructed(LoadedDefaults.pv, AnalysisNoBazel)

SpecEnv == InitEnv /\ [][NextEnv]_vars

\* ---- the ledger read by workers at the same time; the owner of the
\* environment changes it only while no worker is inside a call
ThreadEnvirons == {EmptyMap, [n \in {"GLOBAL_THINLTO"} |-> "1"]}

NextThreads ==
    \/ \E t \in Threads, key \in EnvNames : ThreadCall(t, "Getenv", key)
    \/ \E t \in Threads : ThreadCall(t, "EnvDeps", "")
    \/ \E t \in Threads : ThreadLock(t)
    \/ \E t \in Threads : GetenvLookup(t)
    \/ \E t \in Threads : GetenvCheckFrozen(t)
    \/ \E t \in Threads : GetenvRead(t)
    \/ \E t \in Threads : GetenvWrite(t)
    \/ \E t \in Threads : EnvDepsFreeze(t)
    \/ \E t \in Threads : EnvDepsResult(t)
    \/ \E t \in Threads : ThreadUnlock(t)
    \/ \E t \in Threads : ThreadDone(t)
    \/ envLock = 0 /\ Setenv("GLOBAL_THINLTO", "2")

InitThreads ==
    /\ env \in ThreadEnvirons
    /\ FreshLedger
    /\ FreshCache
    /\ NoRuns
    /\ NoThreads
    /\ Constructed(LoadedDefaults.pv, AnalysisNoBazel)

SpecThreads == InitThreads /\ [][NextThreads]_vars

\* ---- the ledger over every value IsEnvTrue and IsEnvFalse tell apart; the
\* environment stays as it was given.
NextEnvValues ==
    \/ \E key \in EnvNames : Getenv(key)
    \/ \E key \in EnvNames, d \in DefaultValues : GetenvWithDefault(key, d)
    \/ \E key \in EnvNames : IsEnvTrue(key)
    \/ \E key \in EnvNames : IsEnvFalse(key)
    \/ EnvDeps

InitEnvValues ==
    /\ env \in Environments(EnvValues)
    /\ FreshLedger
    /\ FreshCache
    /\ NoRuns
    /\ NoThreads
    /\ Constructed(LoadedDefaults.pv, AnalysisNoBazel)

SpecEnvValues == InitEnvValues /\ [][NextEnvValues]_vars

\* ---- NewConfig over every product variables file
FewModeArgs ==
    {NoModeArgs,
     [NoModeArgs EXCEPT !.Bp2buildMarker = "path"],
     [NoModeArgs EXCEPT !.Bp2buildMarker = "path", !.BazelQueryViewDir = "path"]}

Files == {AbsentFile, UnreadableFile, MalformedFile} \cup {JsonFile(d) : d \in Docs}

InitLoad ==
    /\ \E m \in FewModeArgs, d \in {OutDirInside, OutDirRoot}, f \in Files,
          fault \in IoFaults :
            BeforeNewConfig(WithOutDir(m, d), f, fault)
    /\ env = EmptyMap
    /\ FreshLedger
    /\ FreshCache
    /\ NoRuns
    /\ NoThreads

SpecLoad == InitLoad /\ [][NextNewConfig]_vars

\* ---- NewConfig over every combination of mode requests
InitMode ==
    /\ \E m \in ModeArgs, d \in {OutDirInside, OutDirRoot},
          f \in {AbsentFile, MalformedFile, JsonFile(EmptyDoc)} :
            BeforeNewConfig(WithOutDir(m, d), f, "none")
    /\ env = EmptyMap
    /\ FreshLedger
    /\ FreshCache
    /\ NoRuns
    /\ NoThreads

SpecMode == InitMode /\ [][NextNewConfig]_vars

\* ---- the memoized accessors of a constructed Config, called concurrently
OnceVariables ==
    {LoadedDefaults.pv,
     [LoadedDefaults.pv EXCEPT !.DeviceArch = Ptr("riscv64")],
     [LoadedDefaults.pv EXCEPT !.SanitizeDevice = <<"address">>],
     [LoadedDefaults.pv EXCEPT !.BootJars = <<"core-oj">>, !.ApexBootJars = <<"art">>,
                               !.VendorSnapshotDirsExcluded = << <<"a">>, <<"b", "/">> >>],
     [LoadedDefaults.pv EXCEPT !.VendorSnapshotDirsExcluded = << <<"a">>, <<"a", "/">> >>]}

NextOnce ==
    \/ \E c \in Callers : IsMixedBuildsEnabled(c)
    \/ \E c \in Callers : BootJars(c)
    \/ \E c \in Callers : VendorSnapshotDirsExcludedMap(c)
    \/ \E c \in Callers : OnceCompute(c)
    \/ \E c \in Callers : OnceWake(c)
    \/ \E c \in Callers : CallDone(c)
    \/ EnvDeps

InitOnce ==
    /\ env \in {EmptyMap, [n \in {"GLOBAL_THINLTO"} |-> "true"],
                [n \in {"GLOBAL_THINLTO"} |-> "0"]}
    /\ FreshLedger
    /\ FreshCache
    /\ NoRuns
    /\ NoThreads
    /\ \E pv \in OnceVariables, mode \in {AnalysisNoBazel, BazelProdMode} :
          Constructed(pv, mode)

SpecOnce == InitOnce /\ [][NextOnce]_vars

\* ---- the included and the excluded snapshot directories, called concurrently
SnapshotLists ==
    {[ex |-> << <<"a">> >>, in |-> << <<"b">>, <<"c", "/">> >>],
     [ex |-> << <<"a">> >>, in |-> << <<"b">>, <<"a", "/">> >>],
     [ex |-> <<>>, in |-> << <<"b">>, <<"b", "/">> >>],
     [ex |-> << <<"a">>, <<"a", "/">> >>, in |-> << <<"b">> >>]}

SnapshotVariables ==
    {[LoadedDefaults.pv EXCEPT !.VendorSnapshotDirsExcluded = l.ex,
                               !.VendorSnapshotDirsIncluded = l.in,
                               !.RecoverySnapshotDirsExcluded = << <<"b">> >>,
                               !.RecoverySnapshotDirsIncluded = << <<"a">> >>] :
        l \in SnapshotLists}
    \cup {[LoadedDefaults.pv EXCEPT !.RecoverySnapshotDirsExcluded = << <<"a">> >>,
                                    !.RecoverySnapshotDirsIncluded = << <<".", "/", "a">> >>]}

NextSnapshot ==
    \/ \E c \in Callers : VendorSnapshotDirsExcludedMap(c)
    \/ \E c \in Callers : RecoverySnapshotDirsExcludedMap(c)
    \/ \E c \in Callers, op \in IncludedMapOps : SnapshotDirsIncludedMap(c, op)
    \/ \E c \in Callers, op \in IncludedMapOps : SnapshotDirsIncludedMapOnce(c, op)
    \/ \E c \in Callers : OnceCompute(c)
    \/ \E c \in Callers : OnceWake(c)
    \/ \E c \in Callers : CallDone(c)

InitSnapshot ==
    /\ env = EmptyMap
    /\ FreshLedger
    /\ FreshCache
    /\ NoRuns
    /\ NoThreads
    /\ \E pv \in SnapshotVariables : Constructed(pv, AnalysisNoBazel)

SpecSnapshot == InitSnapshot /\ [][NextSnapshot]_vars

\* ---- IsMixedBuildsEnabled over the modes and the product variables
MixedVariables ==
    {LoadedDefaults.pv,
     [LoadedDefaults.pv EXCEPT !.DeviceArch = Ptr("riscv64")],
     [LoadedDefaults.pv EXCEPT !.SanitizeHost = <<"address">>],
     [LoadedDefaults.pv EXCEPT !.SanitizeDevice = <<"address">>],
     [LoadedDefaults.pv EXCEPT !.SanitizeDeviceDiag = <<"cfi">>],
     [LoadedDefaults.pv EXCEPT !.SanitizeDeviceArch = <<"arm64">>]}

NextMixed ==
    \/ \E c \in Callers : IsMixedBuildsEnabled(c)
    \/ \E c \in Callers : OnceCompute(c)
    \/ \E c \in Callers : OnceWake(c)
    \/ \E c \in Callers : CallDone(c)
    \/ EnvDeps
    \/ Setenv("GLOBAL_THINLTO", "true")

InitMixed ==
    /\ env \in {EmptyMap, [n \in {"GLOBAL_THINLTO"} |-> "on"],
                [n \in {"GLOBAL_THINLTO"} |-> "0"]}
    /\ FreshLedger
    /\ FreshCache
    /\ NoRuns
    /\ NoThreads
    /\ \E pv \in MixedVariables,
          mode \in {AnalysisNoBazel, Bp2build, BazelDevMode, BazelStagingMode, BazelProdMode} :
          Constructed(pv, mode)

SpecMixed == InitMixed /\ [][NextMixed]_vars

\* ---- NewConfig over the modules to force-enable, and what is added later
ForceArgs == {<<>>, <<"a">>, <<"a", ",", "b">>, <<"a", ",">>}

NextForce ==
    \/ NextNewConfig
    \/ \E forceEnabled \in {<< <<"a">> >>, << <<"c">> >>, << <<"b">>, <<"c">> >>} :
          AddForceEnabledModules(forceEnabled)

InitForce ==
    /\ \E arg \in ForceArgs, m \in {NoModeArgs, [NoModeArgs EXCEPT !.BazelMode = TRUE]},
          f \in {AbsentFile, JsonFile(EmptyDoc)} :
            BeforeNewConfig([WithOutDir(m, OutDirInside) EXCEPT
                                !.BazelForceEnabledModules = arg], f, "none")
    /\ env = EmptyMap
    /\ FreshLedger
    /\ FreshCache
    /\ NoRuns
    /\ NoThreads

SpecForce == InitForce /\ [][NextForce]_vars

\* ---- the operations on a constructed Config
ModuleNames == {<<"l", "i", "b", "c">>}

NextUse ==
    \/ SetAllowMissingDependencies
    \/ AllowMissingDependencies
    \/ \E m \in ModuleNames, useBazel \in BOOLEAN : LogMixedBuild(m, useBazel)
    \/ \E m \in ModuleNames : AddForceEnabledModules(<<m>>)
    \/ \E key \in {"RUN_ERROR_PRONE"} : Getenv(key)
    \/ EnvDeps
    \/ IsMixedBuildsEnabled(1)
    \/ BootJars(1)
    \/ OnceCompute(1)
    \/ CallDone(1)

InitUse ==
    /\ env \in {EmptyMap, [n \in {"GLOBAL_THINLTO"} |-> "true"]}
    /\ FreshLedger
    /\ FreshCache
    /\ NoRuns
    /\ NoThreads
    /\ \E pv \in {LoadedDefaults.pv,
                   [LoadedDefaults.pv EXCEPT !.BootJars = <<"core-oj">>,
                                             !.Allow_missing_dependencies = Ptr(FALSE)]} :
          Constructed(pv, BazelProdMode)

SpecUse == InitUse /\ [][NextUse]_vars

\* ---- two runs of the program
RunEnviron(extra) ==
    [n \in {"SDCLANG_CONFIG"} \cup DOMAIN extra |->
        IF n \in DOMAIN extra THEN extra[n] ELSE "sdclang.json"]

RunEnvirons ==
    {EmptyMap}
    \cup {RunEnviron(EmptyMap)}
    \cup {RunEnviron([n \in {"TARGET_PRODUCT"} |-> "dev"]),
          RunEnviron([n \in {"SDCLANG_SA_ENABLED"} |-> "true"]),
          RunEnviron([n \in {"SDCLANG_AE_CONFIG"} |-> "ae.json"]),
          RunEnviron([n \in {"SDCLANG_PATH"} |-> "env/bin"]),
          RunEnviron([n \in {"CC_WRAPPER"} |-> "ccache"]),
          RunEnviron([n \in {"RUN_ERROR_PRONE"} |-> "true"]),
          RunEnviron([n \in {"KYTHE_JAVA_SOURCE_BATCH_SIZE"} |-> "500"]),
          RunEnviron([n \in {"KYTHE_JAVA_SOURCE_BATCH_SIZE"} |-> "many"])}

InitRuns ==
    /\ runs \in [Runs -> {NewRun(e) : e \in RunEnvirons}]
    /\ NoThreads
    /\ env = EmptyMap
    /\ FreshLedger
    /\ onceValues = [k \in OnceKeys |-> AbsentEntry]
    /\ computeCount = [k \in OnceKeys |-> 0]
    /\ call = [c \in Callers |-> IdleCall]
    /\ Constructed(LoadedDefaults.pv, AnalysisNoBazel)

SpecRuns == InitRuns /\ [][NextRuns]_vars

\* ---- the coverage of paths
CoveragePaths ==
    {<<"e", "x", "t", "e", "r", "n", "a", "l">>, <<"e", "x", "t", "e", "r", "n", "a", "l", "/", "p", "r", "o", "t", "o", "b", "u", "f">>, <<"e", "x", "t", "e", "r", "n", "a", "l", "/", "p", "r", "o", "t", "o", "b", "u", "f", "/", "s", "r", "c">>, <<"e", "x", "t", "e", "r", "n", "a", "l", "/", "p", "r", "o", "t", "o">>, <<"v", "e", "n", "d", "o", "r", "/", "a">>, <<"v", "e", "n", "d", "o", "r">>}

CoverageLists(dirs) ==
    {<<>>} \cup {<<d>> : d \in dirs} \cup {<<d, e>> : d \in dirs, e \in dirs}

InitCoverage ==
    /\ env = EmptyMap
    /\ FreshLedger
    /\ FreshCache
    /\ NoRuns
    /\ NoThreads
    /\ \E incl \in CoverageLists({<<"*">>, <<"v", "e", "n", "d", "o", "r">>, <<"e", "x", "t", "e", "r", "n", "a", "l">>}),
          excl \in CoverageLists({<<"v", "e", "n", "d", "o", "r", "/", "a">>, <<"e", "x", "t", "e", "r", "n", "a", "l", "/", "p", "r", "o", "t", "o", "b", "u", "f", "/", "s", "r", "c">>}) :
          Constructed([LoadedDefaults.pv EXCEPT !.NativeCoveragePaths = incl,
                                                !.NativeCoverageExcludePaths = excl],
                      AnalysisNoBazel)

NextCoverage == \E path \in CoveragePaths : NativeCoverageEnabledForPath(path)

SpecCoverage == InitCoverage /\ [][NextCoverage]_vars

\* ---- NewConfig over the output directories
InitDirs ==
    /\ \E d \in OutDirs,
          f \in {AbsentFile, UnreadableFile, MalformedFile, JsonFile(EmptyDoc)},
          fault \in IoFaults :
            BeforeNewConfig(WithOutDir(NoModeArgs, d), f, fault)
    /\ env = EmptyMap
    /\ FreshLedger
    /\ FreshCache
    /\ NoRuns
    /\ NoThreads

SpecDirs == InitDirs /\ [][NextNewConfig]_vars

\* ---- NewConfig over the device architectures of the product variables
ArchNames == {Nil, Ptr(""), Ptr("arm"), Ptr("arm64"), Ptr("x86_64"), Ptr("riscv64"), Ptr("mips")}

TargetDocs ==
    {Marshal([ZeroVars EXCEPT !.DeviceArch = a, !.DeviceSecondaryArch = b,
                              !.Ndk_abis = n, !.Aml_abis = m]) :
        a \in ArchNames, b \in ArchNames \ {Ptr("riscv64")},
        n \in OptBools, m \in {Nil, Ptr(TRUE)}}

InitTargets ==
    /\ \E m \in {NoModeArgs, [NoModeArgs EXCEPT !.BazelMode = TRUE]},
          f \in {AbsentFile} \cup {JsonFile(d) : d \in TargetDocs} :
            BeforeNewConfig(WithOutDir(m, OutDirInside), f, "none")
    /\ env = EmptyMap
    /\ FreshLedger
    /\ FreshCache
    /\ NoRuns
    /\ NoThreads

SpecTargets == InitTargets /\ [][NextNewConfig]_vars

\* ---- processes that load from one output directory at the same time
InitPersist ==
    /\ disk = EmptyDir
    /\ proc = [p \in Procs |-> IdleProc]
    /\ seen = {}
    /\ env = EmptyMap
    /\ FreshLedger
    /\ FreshCache
    /\ NoRuns
    /\ NoThreads
    /\ pc = "start"
    /\ cmdArgs = DefaultArgs
    /\ BuildMode = AnalysisNoBazel
    /\ productVariables = ZeroVars
    /\ cfgFile = AbsentFile
    /\ ioFault = "none"
    /\ written = {}
    /\ result = NoResult
    /\ opened = FALSE
    /\ exported = NoExport
    /\ acc = NoAccess
    /\ Targets = NoTargets
    /\ multilibConflicts = {}
    /\ AndroidFirstDeviceTarget = ZeroTarget
    /\ AndroidCommonTarget = ZeroTarget
    /\ bazelForceEnabledModules = {}
    /\ mixedBuildEnabledModules = {}
    /\ mixedBuildDisabledModules = {}

SpecPersist == InitPersist /\ [][NextPersist]_vars

\* Everything together: a Config is constructed and then used.
Init == InitEnv \/ InitMode

Next == NextEnv \/ NextNewConfig \/ NextOnce \/ NextPersist

Spec == Init /\ [][Next]_vars

(***************************************************************************)
(* Properties.                                                             *)
(***************************************************************************)

\* The operations that return what Getenv returned, and all that call it.
RawGetenvOps == {"Getenv", "IsEnvTrue", "IsEnvFalse"}
GetenvOps == RawGetenvOps \cup {"GetenvWithDefault"}

\* C1: single-read semantics.  The value a Getenv(n) returns is the value the
\* first Getenv(n) on this Config returned, whatever the environment holds by
\* now and whether or not the ledger is frozen; and a call that panics is a
\* call for a name that was never returned and is not recorded.
C1_SingleRead ==
    /\ (ret.op \in RawGetenvOps /\ ~ret.panicked) => ret.val = firstRet[ret.key]
    /\ (ret.op \in GetenvOps /\ ret.panicked) =>
          (firstRet[ret.key] = NoValue /\ ret.key \notin DOMAIN envDeps)

\* C1 witness: after the freeze, Getenv returned the recorded value of a name
\* whose value in the environment is another one by now.
C1_Witness ==
    /\ ret.op = "Getenv" /\ ~ret.panicked /\ envFrozen
    /\ MapGet(env, ret.key) # ret.val
    /\ ret.val # ""

\* C2: once EnvDeps was called, a Getenv (direct, or through IsEnvTrue,
\* IsEnvFalse, GetenvWithDefault) of a name that is not in the ledger panics
\* and leaves the ledger as it was.
C2_FrozenNewNamePanics ==
    [][(envFrozen /\ ret'.op \in GetenvOps /\ ret'.key \notin DOMAIN envDeps)
          => (ret'.panicked /\ envDeps' = envDeps)]_vars

\* C2 witness: a call panicked on a frozen ledger that lacks the name.
C2_Witness ==
    /\ envFrozen /\ ret.op = "GetenvWithDefault" /\ ret.panicked
    /\ ret.key \notin DOMAIN envDeps
    /\ envDeps # EmptyMap

\* C3: every EnvDeps call returns the mapping the first one returned, and the
\* ledger stays that mapping.
C3_EnvDepsIdempotent ==
    firstDeps.called => (depsRet = firstDeps.deps /\ envDeps = firstDeps.deps)

\* C3 witness: EnvDeps was called again, on a ledger that holds an entry and
\* lacks a name the environment binds.
C3_Witness ==
    /\ firstDeps.again /\ ret.op = "EnvDeps"
    /\ \E n \in EnvNames : n \notin DOMAIN envDeps /\ n \in DOMAIN env
    /\ envDeps # EmptyMap

\* C4: a step changes the ledger only by adding one entry for a new name;
\* no entry goes away or changes, a frozen ledger does not change at all, and
\* the frozen flag stays set.
C4_LedgerGrowsOnly ==
    [][/\ \A n \in DOMAIN envDeps : n \in DOMAIN envDeps' /\ envDeps'[n] = envDeps[n]
       /\ Cardinality(DOMAIN envDeps' \ DOMAIN envDeps) <= 1
       /\ envFrozen => (envDeps' = envDeps /\ envFrozen')]_vars

\* C4 witness: the ledger holds every name, is frozen, and a value recorded
\* in it is no longer the one in the environment.
C4_Witness ==
    /\ envFrozen /\ DOMAIN envDeps = EnvNames
    /\ \E n \in EnvNames : MapGet(env, n) # envDeps[n]
    /\ ret.op = "IsEnvFalse"

\* C5: IsEnvTrue(n) is true exactly for the recorded values 1, y, yes, on,
\* true, and IsEnvFalse(n) exactly for 0, n, no, off, false; no recorded value
\* makes both true, and any other value (the empty one too) makes both false.
C5_TruthClassification ==
    /\ (ret.op = "IsEnvTrue" /\ ~ret.panicked) =>
          /\ ret.val = envDeps[ret.key]
          /\ ret.bool <=> (ret.val \in TruthyStrings)
    /\ (ret.op = "IsEnvFalse" /\ ~ret.panicked) =>
          /\ ret.val = envDeps[ret.key]
          /\ ret.bool <=> (ret.val \in FalsyStrings)
    /\ \A n \in DOMAIN envDeps :
          /\ ~(isTrueString(envDeps[n]) /\ isFalseString(envDeps[n]))
          /\ envDeps[n] \notin (TruthyStrings \cup FalsyStrings) =>
                (~isTrueString(envDeps[n]) /\ ~isFalseString(envDeps[n]))

\* C5 witness: IsEnvTrue answered true for "on", with an unset name recorded
\* as the empty value beside it.
C5_Witness ==
    /\ ret.op = "IsEnvTrue" /\ ret.bool /\ ret.val = "on"
    /\ \E n \in DOMAIN envDeps : n \notin DOMAIN env /\ envDeps[n] = ""

RequestedModes(a) ==
    {m \in 1..9 :
        \/ m = SymlinkForest /\ a.SymlinkForestMarker # ""
        \/ m = Bp2build /\ a.Bp2buildMarker # ""
        \/ m = GenerateQueryView /\ a.BazelQueryViewDir # ""
        \/ m = ApiBp2build /\ a.BazelApiBp2buildDir # ""
        \/ m = GenerateModuleGraph /\ a.ModuleGraphFile # ""
        \/ m = GenerateDocFile /\ a.DocFile # ""
        \/ m = BazelDevMode /\ a.BazelModeDev
        \/ m = BazelProdMode /\ a.BazelMode
        \/ m = BazelStagingMode /\ a.BazelModeStaging}

\* NewConfig got as far as the selection of the build mode and ended.
SelectionDone == pc = "done" /\ result.kind \in {"ok", "exit"}

\* C7: with two or more mode requests the selection ends in the fatal exit;
\* with exactly one it succeeds and BuildMode is the mode of that request.
C7_ModeSelection ==
    SelectionDone =>
        LET req == RequestedModes(cmdArgs.mode) IN
        /\ Cardinality(req) >= 2 => result.kind = "exit"
        /\ Cardinality(req) = 1 => (result.kind = "ok" /\ req = {BuildMode})

\* C7 witness: a bp2build marker and a query view directory were both given
\* and the selection exited.
C7_Witness ==
    /\ SelectionDone /\ result.kind = "exit"
    /\ cmdArgs.mode.Bp2buildMarker # "" /\ cmdArgs.mode.BazelQueryViewDir # ""
    /\ Cardinality(RequestedModes(cmdArgs.mode)) = 2

\* C8: without a mode request BuildMode is AnalysisNoBazel after NewConfig,
\* and after a successful NewConfig it is AnalysisNoBazel only then.
C8_DefaultMode ==
    SelectionDone =>
        LET req == RequestedModes(cmdArgs.mode) IN
        /\ req = {} => (result.kind = "ok" /\ BuildMode = AnalysisNoBazel)
        /\ (result.kind = "ok" /\ BuildMode = AnalysisNoBazel) => req = {}

\* C8 witness: NewConfig succeeded without a request, in AnalysisNoBazel.
C8_Witness ==
    /\ SelectionDone /\ result.kind = "ok" /\ BuildMode = AnalysisNoBazel
    /\ RequestedModes(cmdArgs.mode) = {}

\* loadFromConfigFile has run.
LoadDone == pc \in {"targets", "mode"} \/ (pc = "done" /\ result.err # BuildDirError)
\* ... and returned nil.
LoadSucceeded ==
    \/ pc \in {"targets", "mode"}
    \/ SelectionDone
    \/ pc = "done" /\ result.kind = "error" /\ result.err[1] = "unknown arch "
\* The file was there before the load: the load did not write it.
FileDecoded == cfgFile.state = "ok" /\ "soong.variables" \notin written

\* C9: a load whose variables (decoded from the file, or the defaults) have
\* GcovCoverage and ClangCoverage both true returns the error of the check;
\* the check rejects no other load.
C9_CoverageExclusive ==
    LoadDone =>
        /\ (FileDecoded /\ Bool(JsonGet(cfgFile.doc, "GcovCoverage")) /\ Bool(JsonGet(cfgFile.doc, "ClangCoverage")))
              => (pc = "done" /\ result = Returned(CoverageError))
        /\ (Bool(productVariables.GcovCoverage) /\ Bool(productVariables.ClangCoverage))
              => (pc = "done" /\ result = Returned(CoverageError))
        /\ result.err = CoverageError =>
              (Bool(productVariables.GcovCoverage) /\ Bool(productVariables.ClangCoverage))

\* C9 witness: a file with both modes on was rejected.
C9_Witness ==
    /\ LoadDone /\ FileDecoded /\ result = Returned(CoverageError)
    /\ JsonGet(cfgFile.doc, "GcovCoverage") = Ptr(TRUE)
    /\ JsonGet(cfgFile.doc, "ClangCoverage") = Ptr(TRUE)

\* C10: after a successful load Native_coverage is set, to GcovCoverage or
\* ClangCoverage (nil counting as false) as the file gives them, whatever
\* Native_coverage the file gives; NativeCoverageEnabled() returns the same.
C10_NativeCoverageDerived ==
    LoadSucceeded =>
        /\ productVariables.Native_coverage # Nil
        /\ productVariables.Native_coverage[1] =
              (Bool(productVariables.GcovCoverage) \/ Bool(productVariables.ClangCoverage))
        /\ productVariables.Native_coverage[1] = NativeCoverageEnabled
        /\ FileDecoded =>
              productVariables.Native_coverage[1] =
                 (Bool(JsonGet(cfgFile.doc, "GcovCoverage")) \/ Bool(JsonGet(cfgFile.doc, "ClangCoverage")))

\* C10 witness: the file says Native_coverage is off and ClangCoverage is on;
\* the load succeeded with Native_coverage on.
C10_Witness ==
    /\ LoadSucceeded /\ FileDecoded
    /\ JsonGet(cfgFile.doc, "Native_coverage") = Ptr(FALSE)
    /\ JsonGet(cfgFile.doc, "ClangCoverage") = Ptr(TRUE)
    /\ productVariables.Native_coverage = Ptr(TRUE)

\* The fields of the SDK as the file gives them are the fields of the record.
SdkFieldsDecoded ==
    /\ productVariables.Platform_sdk_final = JsonGet(cfgFile.doc, "Platform_sdk_final")
    /\ productVariables.Platform_sdk_version = JsonGet(cfgFile.doc, "Platform_sdk_version")
    /\ productVariables.Platform_sdk_codename = JsonGet(cfgFile.doc, "Platform_sdk_codename")

\* C11: after a successful load with Platform_sdk_final true,
\* Platform_sdk_version is set and Platform_sdk_version_or_codename is its
\* decimal string; with Platform_sdk_final false or absent it is
\* Platform_sdk_codename, the empty string when there is no codename.  A load
\* that passed the coverage check with Platform_sdk_final true and no
\* Platform_sdk_version fails with the error of that check, and only such a
\* load does.
C11_SdkVersionOrCodename ==
    /\ LoadSucceeded =>
          LET final == Bool(productVariables.Platform_sdk_final)
              version == productVariables.Platform_sdk_version
              codename == productVariables.Platform_sdk_codename
              voc == productVariables.Platform_sdk_version_or_codename
          IN  /\ FileDecoded => SdkFieldsDecoded
              /\ final => version # Nil
              /\ (final /\ version = Ptr(9)) => voc = Ptr("9")
              /\ (final /\ version = Ptr(30)) => voc = Ptr("30")
              /\ (final /\ version = Ptr(33)) => voc = Ptr("33")
              /\ (~final /\ codename = Nil) => voc = Ptr("")
              /\ (~final /\ codename # Nil) => voc = Ptr(codename[1])
    /\ (LoadDone /\ FileDecoded
          /\ Bool(JsonGet(cfgFile.doc, "Platform_sdk_final"))
          /\ JsonGet(cfgFile.doc, "Platform_sdk_version") = Nil
          /\ ~(Bool(JsonGet(cfgFile.doc, "GcovCoverage"))
                /\ Bool(JsonGet(cfgFile.doc, "ClangCoverage"))))
          => (pc = "done" /\ result = Returned(SdkVersionError))
    /\ result.err = SdkVersionError =>
          (Bool(productVariables.Platform_sdk_final)
             /\ productVariables.Platform_sdk_version = Nil)

\* C11 witness: a file of a final SDK 33 with a codename was loaded, and the
\* field is "33".
C11_Witness ==
    /\ LoadSucceeded /\ FileDecoded
    /\ JsonGet(cfgFile.doc, "Platform_sdk_final") = Ptr(TRUE)
    /\ JsonGet(cfgFile.doc, "Platform_sdk_version") = Ptr(33)
    /\ JsonGet(cfgFile.doc, "Platform_sdk_codename") = Ptr("U")
    /\ productVariables.Platform_sdk_version_or_codename = Ptr("33")

\* The path of the product variables file, as a message prints it.
ProductVariablesPath ==
    PathString(Join(cmdArgs.SoongOutDir, productVariablesFileName))

\* The message err has s as one of its pieces.
Carries(err, s) == \E i \in 1..Len(err) : err[i] = s

\* C12: a load of a file that cannot be read, that is not JSON, that sets
\* both GcovCoverage and ClangCoverage, or that sets Platform_sdk_final
\* without Platform_sdk_version makes NewConfig return an error, and the
\* message of the error has the path of the product variables file in it.
C12_LoadErrorsCarryPath ==
    (/\ LoadDone
     /\ \/ cfgFile.state \in {"unreadable", "malformed"}
        \/ Bool(productVariables.GcovCoverage) /\ Bool(productVariables.ClangCoverage)
        \/ Bool(productVariables.Platform_sdk_final)
              /\ productVariables.Platform_sdk_version = Nil)
       => /\ pc = "done" /\ result.kind = "error"
          /\ Carries(result.err, ProductVariablesPath)

\* The load found no product variables file, wrote it and returned nil.
DefaultsPersisted ==
    LoadSucceeded /\ cfgFile.state = "ok" /\ "soong.variables" \in written

\* The fields the load derives after it has written the file.
DerivedFields == {"Native_coverage", "Platform_sdk_version_or_codename"}

\* C13 as stated: after a load that created the product variables file, the
\* record is, field for field, the record the decoding of that file gives.
C13_RoundTripDecode ==
    DefaultsPersisted => productVariables = Decode(ZeroVars, cfgFile.doc)

\* C13 amended: after a load that created the product variables file, a
\* second load from that file returns nil, leaves the file alone and gives the
\* same record, field for field; the decoding of the file alone gives the
\* same record in every field but the derived ones.
C13_ReloadRoundTrip ==
    DefaultsPersisted =>
        LET again == loadFromConfigFile(ZeroVars,
                        Join(cmdArgs.SoongOutDir, productVariablesFileName),
                        cfgFile, "none")
        IN  /\ again.err = NoError
            /\ again.pv = productVariables
            /\ again.file = cfgFile
            /\ "soong.variables" \notin again.written
            /\ \A f \in DOMAIN productVariables \ DerivedFields :
                  Decode(ZeroVars, cfgFile.doc)[f] = productVariables[f]

\* C13 witness: the defaults were written and loaded; the file has the
\* codename, the record has the field derived from it, the file has not.
C13_Witness ==
    /\ DefaultsPersisted
    /\ JsonGet(cfgFile.doc, "Platform_sdk_codename") = Ptr("S")
    /\ productVariables.Platform_sdk_version_or_codename = Ptr("S")
    /\ "Platform_sdk_version_or_codename" \notin DOMAIN cfgFile.doc

\* The bytes are one whole JSON document and the newline after it.
CompleteDocument(bytes) == bytes = <<DefaultsJson, "\n">>

\* C14: while processes create the missing product variables file, the path
\* names no file or a file that holds one complete JSON document, and so
\* does everything a reader (another program, or a load that opens the file)
\* found there; a process writes only into a file that does not have the
\* path as its name, and the file the path names was complete when it got
\* the name.
C14_AtomicPersist ==
    /\ disk.target # 0 => CompleteDocument(disk.bytes[disk.target])
    /\ \A r \in seen : r.exists => CompleteDocument(r.bytes)
    /\ \A p \in Procs :
          proc[p].pc \in {"write", "writeString"} =>
             (disk.target # p /\ disk.temp[p] = p)
    /\ \A p \in Procs : proc[p].pc = "failed" => ~Carries(proc[p].err, "unexpected end of JSON input")

\* C14 witness: the path names the complete file of one process while the
\* other process is in the middle of writing its temp file, and readers have
\* found the path both without a file and with the document.
C14_Witness ==
    /\ disk.target # 0
    /\ \E p \in Procs : p # disk.target /\ proc[p].pc = "writeString"
                          /\ disk.bytes[p] = <<DefaultsJson>>
    /\ \E r \in seen : ~r.exists
    /\ \E r \in seen : r.exists

\* C15: when the product variables file is missing and the creation of the
\* temp file, the write or the rename fails, the load returns an error that
\* holds the I/O error and NewConfig does not succeed; a load that succeeded
\* has left a product variables file on disk.
C15_PersistFailuresSurface ==
    /\ (LoadDone /\ cfgFile.state = "absent"
          /\ ioFault \in {"createTemp", "write", "rename"})
          => /\ pc = "done" /\ result.kind = "error"
             /\ Carries(result.err, IoError)
    /\ LoadSucceeded => cfgFile.state # "absent"

\* NewConfig has set its targets.
TargetsResolved == pc = "mode" \/ SelectionDone

\* The j-th target comes after a target of its multilib class.
PrecededBySameClass(targets, j) ==
    \E i \in 1..(j - 1) : targets[i].Multilib = targets[j].Multilib

\* C16: after NewConfig has set its targets, HasMultilibConflict(a) is true
\* exactly for the arch types of the Android targets that come after a
\* target of the same multilib class; two lib64 targets give one entry, a
\* lib64 and a lib32 target give none; and a NewConfig that recorded a
\* conflict does not return an error.
C16_MultilibConflicts ==
    /\ TargetsResolved =>
          LET android == Targets[Android] IN
          /\ \A a \in ArchTypes \cup {"common", ""} :
                HasMultilibConflict(a) <=>
                   \E j \in 1..Len(android) :
                      android[j].ArchType = a /\ PrecededBySameClass(android, j)
          /\ multilibConflicts \subseteq ArchTypes
          /\ (Len(android) = 2 /\ android[1].Multilib = "lib64"
                 /\ android[2].Multilib = "lib64")
                => Cardinality(multilibConflicts) = 1
          /\ (Len(android) = 2 /\ android[1].Multilib # android[2].Multilib)
                => multilibConflicts = {}
    /\ (pc = "done" /\ multilibConflicts # {}) => result.kind # "error"

\* C16 witness: NewConfig succeeded on the device architectures arm64 and
\* x86_64 and recorded the conflict of x86_64, not of arm64.
C16_Witness ==
    /\ pc = "done" /\ result.kind = "ok"
    /\ Len(Targets[Android]) = 2
    /\ Targets[Android][1].ArchType = "arm64" /\ Targets[Android][2].ArchType = "x86_64"
    /\ HasMultilibConflict("x86_64") /\ ~HasMultilibConflict("arm64")

\* The positions of the targets of a multilib class.
OfClass(targets, multilib) == {i \in 1..Len(targets) : targets[i].Multilib = multilib}
Least(S) == CHOOSE i \in S : \A j \in S : i <= j

\* C20: after NewConfig has set its targets, AndroidFirstDeviceTarget is the
\* first lib64 target of a non-empty Android list if it has one, else its
\* first lib32 target; with an empty Android list AndroidFirstDeviceTarget
\* and AndroidCommonTarget are the zero Target, and NewConfig goes on to the
\* build mode without an error.
C20_FirstDeviceTarget ==
    /\ TargetsResolved =>
          LET android == Targets[Android]
              lib64 == OfClass(android, "lib64")
              lib32 == OfClass(android, "lib32")
          IN  /\ lib64 # {} => AndroidFirstDeviceTarget = android[Least(lib64)]
              /\ (lib64 = {} /\ lib32 # {}) =>
                    AndroidFirstDeviceTarget = android[Least(lib32)]
              /\ Len(android) > 0 => AndroidCommonTarget = commonTarget(Android)
              /\ Len(android) = 0 =>
                    /\ AndroidFirstDeviceTarget = ZeroTarget
                    /\ AndroidCommonTarget = ZeroTarget
    /\ (pc = "done" /\ LoadSucceeded /\ DeviceArchNames(productVariables) = <<>>)
          => (TargetsResolved /\ result.kind # "error")

\* C20 witness: the Android list is arm, arm64; the first device target is
\* the second of the list.
C20_Witness ==
    /\ TargetsResolved
    /\ Len(Targets[Android]) = 2
    /\ Targets[Android][1].ArchType = "arm" /\ Targets[Android][2].ArchType = "arm64"
    /\ AndroidFirstDeviceTarget = Targets[Android][2]

\* The directories on the way from the root to the path.
Components(path) == SelectSeq(SplitSlash(path, 1, <<>>), LAMBDA c : c # <<>>)

\* dir is the directory of path or one above it.
IsAncestorOrSelf(dir, path) ==
    LET d == Components(dir)
        q == Components(path)
    IN  Len(d) <= Len(q) /\ \A i \in 1..Len(d) : d[i] = q[i]

\* C17: when SoongOutDir is the source root or a directory above it,
\* NewConfig does not get past the check of the directories and returns its
\* error; the product variables file was not opened, nothing was created or
\* written, nothing was exported and no variable was loaded.
C17_OutDirCheckedBeforeIO ==
    IsAncestorOrSelf(cmdArgs.SoongOutDir, absSrcDir) =>
        /\ pc \in {"start", "done"}
        /\ pc = "done" => result = Returned(BuildDirError)
        /\ ~opened
        /\ written = {}
        /\ exported = NoExport
        /\ productVariables = ZeroVars

\* C17 witness: NewConfig with the parent of the source root as SoongOutDir
\* returned the error, with no product variables file there before or after.
C17_Witness ==
    /\ pc = "done" /\ result = Returned(BuildDirError)
    /\ cmdArgs.SoongOutDir = OutDirParent
    /\ cfgFile = AbsentFile /\ ~opened /\ written = {}

\* C18 as stated: after NewConfig has returned, no step changes a field of
\* the product variables.
C18_StoreReadOnly ==
    [][(pc = "done" /\ result.kind = "ok") => productVariables' = productVariables]_vars

\* C18 amended: after NewConfig has returned, the only step that changes the
\* product variables is SetAllowMissingDependencies, which makes
\* Allow_missing_dependencies true and changes no other field; accessors,
\* Getenv, EnvDeps, Once, LogMixedBuild and AddForceEnabledModules change
\* none.
C18_StoreChangedOnlyBySetter ==
    [][(pc = "done" /\ result.kind = "ok") =>
          /\ \A f \in DOMAIN productVariables \ {"Allow_missing_dependencies"} :
                productVariables'[f] = productVariables[f]
          /\ productVariables' # productVariables =>
                /\ acc'.op = "SetAllowMissingDependencies"
                /\ productVariables'.Allow_missing_dependencies = Ptr(TRUE)]_vars

\* C18 witness: the setter was called and the accessor returned true after
\* it, on a Config whose ledger was frozen, whose cache has the boot jars
\* and that got a module through LogMixedBuild and AddForceEnabledModules.
C18_Witness ==
    /\ acc.op = "AllowMissingDependencies" /\ acc.val
    /\ productVariables.Allow_missing_dependencies = Ptr(TRUE)
    /\ productVariables.BootJars = <<"core-oj">>
    /\ envFrozen
    /\ onceValues["earlyBootJars"].state = "stored"
    /\ mixedBuildEnabledModules # {}
    /\ Cardinality(bazelForceEnabledModules) = 2

\* The name is in the list.
NameInList(list, name) == \E i \in 1..Len(list) : list[i] = name

\* C19: of the two lists of field names the export writes, one has exactly
\* the fields tagged arch_variant and the other exactly the fields that are
\* not tagged: every field is in one list and in one only.
C19_ManifestsPartition ==
    exported # NoExport =>
        LET arch == exported[1].arch_variant_product_var_constraints
            nonArch == exported[1].product_var_constraints
        IN  \A i \in 1..Len(ProductVariablesFields) :
               LET f == ProductVariablesFields[i] IN
               /\ NameInList(arch, ToLower(f.Name)) <=> f.arch_variant
               /\ NameInList(nonArch, ToLower(f.Name)) <=> ~f.arch_variant

\* The runs that both returned from EnvDeps with the same mapping.
SameEnvDeps ==
    /\ \A r \in Runs : runs[r].pc = "done"
    /\ runs[1].deps = runs[2].deps

\* C21: two runs whose EnvDeps mappings are equal obtained the same value
\* for every one of the derived values that both of them derived.
C21_ValuesFollowEnvDeps ==
    (runs # <<>> /\ SameEnvDeps) =>
        \A i \in 1..Len(ConfigValues) :
            (runs[1].vals[i] # <<>> /\ runs[2].vals[i] # <<>>)
                => runs[1].vals[i] = runs[2].vals[i]

\* The arch types of a list of targets, in its order.
ArchTypesOf(targets) == [i \in 1..Len(targets) |-> targets[i].ArchType]

\* C23: once NewConfig has set its targets, the Android targets are those of
\* the NDK preset if Ndk_abis is true, else those of the AML preset if
\* Aml_abis is true, else those of the device architectures of the product
\* variables; with a preset the device architectures do not matter, and the
\* conflicts and the slots are those of the list of the preset.
C23_AlternateAbis ==
    TargetsResolved =>
        LET android == Targets[Android]
            ndk == Bool(productVariables.Ndk_abis)
            aml == Bool(productVariables.Aml_abis)
        IN  /\ ndk => ArchTypesOf(android) = getNdkAbisConfig
            /\ (~ndk /\ aml) => ArchTypesOf(android) = getAmlAbisConfig
            /\ (~ndk /\ ~aml) => ArchTypesOf(android) = DeviceArchNames(productVariables)
            /\ \A i \in 1..Len(android) :
                  /\ android[i].Os = Android
                  /\ android[i].Multilib = MultilibOf(android[i].ArchType)
            /\ ndk => multilibConflicts = {"riscv64", "x86_64", "x86"}
            /\ (~ndk /\ aml) => multilibConflicts = {"x86_64", "x86"}
            /\ (ndk \/ aml) =>
                  /\ AndroidFirstDeviceTarget = android[1]
                  /\ AndroidFirstDeviceTarget.ArchType = "arm64"
                  /\ AndroidCommonTarget = commonTarget(Android)

\* C23 witness: both flags are true and the device architecture is x86_64
\* alone; NewConfig succeeded with the five targets of the NDK preset.
C23_Witness ==
    /\ pc = "done" /\ result.kind = "ok"
    /\ productVariables.Ndk_abis = Ptr(TRUE) /\ productVariables.Aml_abis = Ptr(TRUE)
    /\ DeviceArchNames(productVariables) = <<"x86_64">>
    /\ Len(Targets[Android]) = 5
    /\ HasMultilibConflict("riscv64")

\* C24: a load writes the product variables file if and only if the file
\* did not exist when the load started: a file that exists, whether it can
\* be read, parsed and validated or not, is left as it is, and a load that
\* found no file and returned no error has written one.
C24_WrittenIffAbsent ==
    [][pc = "load" =>
          /\ cfgFile.state # "absent" =>
                (cfgFile' = cfgFile /\ "soong.variables" \notin written')
          /\ (cfgFile.state = "absent" /\ pc' = "targets") =>
                (cfgFile'.state = "ok" /\ "soong.variables" \in written')
          /\ "soong.variables" \in written' => cfgFile.state = "absent"]_vars

\* An entry of the list is the beginning of the path.
BeginsWithOneOf(path, list) ==
    \E i \in 1..Len(list) :
        /\ Len(list[i]) <= Len(path)
        /\ \A k \in 1..Len(list[i]) : path[k] = list[i][k]

\* The path is in NativeCoveragePaths ("*" or an entry that begins it) and
\* not under an entry of NativeCoverageExcludePaths.
CoverageListed(path) ==
    /\ \/ \E i \in 1..Len(productVariables.NativeCoveragePaths) :
             productVariables.NativeCoveragePaths[i] = <<"*">>
       \/ BeginsWithOneOf(path, productVariables.NativeCoveragePaths)
    /\ ~BeginsWithOneOf(path, productVariables.NativeCoverageExcludePaths)

\* C25 as stated: NativeCoverageEnabledForPath(path) is true exactly when
\* NativeCoveragePaths has "*" or an entry that is a prefix of the path and
\* no entry of NativeCoverageExcludePaths is a prefix of it.
C25_CoverageForPath ==
    acc.op = "NativeCoverageEnabledForPath" => (acc.val <=> CoverageListed(acc.path))

\* C25 amended: it is true exactly when the path is listed so and, if
\* NativeCoverageExcludePaths is not empty, the path does not begin with
\* external/protobuf; with an empty NativeCoveragePaths it is false.
C25_CoverageForPathButProtobuf ==
    acc.op = "NativeCoverageEnabledForPath" =>
        /\ acc.val <=>
              /\ CoverageListed(acc.path)
              /\ ~(/\ Len(productVariables.NativeCoverageExcludePaths) > 0
                   /\ BeginsWithOneOf(acc.path, <<ExternalProtobuf>>))
        /\ productVariables.NativeCoveragePaths = <<>> => ~acc.val

\* C25 witness: everything is covered but vendor/a, and the call for a path
\* under external/protobuf returned false.
C25_Witness ==
    /\ acc.op = "NativeCoverageEnabledForPath" /\ ~acc.val
    /\ productVariables.NativeCoveragePaths = <<(<<"*">>)>>
    /\ productVariables.NativeCoverageExcludePaths = <<<<"v", "e", "n", "d", "o", "r", "/", "a">>>>
    /\ acc.path = <<"e", "x", "t", "e", "r", "n", "a", "l", "/", "p", "r", "o", "t", "o", "b", "u", "f", "/", "s", "r", "c">>

\* The calls of IsMixedBuildsEnabled that have returned.
MixedBuildsReturned ==
    {c \in Callers : call[c].pc = "returned" /\ call[c].op = "IsMixedBuildsEnabled"}

\* C26: IsMixedBuildsEnabled returns true only in one of the three Bazel
\* modes and only if, when its result was computed, the device arch was not
\* riscv64, GLOBAL_THINLTO was not one of the true strings and the four
\* sanitizer lists were empty; in the other modes it returns false; and all
\* the calls on a Config return the same.
C26_MixedBuildsEnabled ==
    /\ \A c \in MixedBuildsReturned :
          /\ call[c].val[1] =>
                /\ BuildMode \in {BazelProdMode, BazelDevMode, BazelStagingMode}
                /\ String(productVariables.DeviceArch) # "riscv64"
                /\ "GLOBAL_THINLTO" \in DOMAIN envDeps
                /\ envDeps["GLOBAL_THINLTO"] \notin TruthyStrings
                /\ productVariables.SanitizeHost = <<>>
                /\ productVariables.SanitizeDevice = <<>>
                /\ productVariables.SanitizeDeviceDiag = <<>>
                /\ productVariables.SanitizeDeviceArch = <<>>
          /\ BuildMode \notin {BazelProdMode, BazelDevMode, BazelStagingMode}
                => ~call[c].val[1]
    /\ \A c, d \in MixedBuildsReturned : call[c].val = call[d].val

\* C26 witness: in BazelStagingMode with GLOBAL_THINLTO=0 at the first call
\* and GLOBAL_THINLTO=true by now, every caller holds true, the result
\* having been computed once.
C26_Witness ==
    /\ MixedBuildsReturned = Callers
    /\ \A c \in Callers : call[c].val[1]
    /\ BuildMode = BazelStagingMode
    /\ envDeps = [n \in {"GLOBAL_THINLTO"} |-> "0"]
    /\ env = [n \in {"GLOBAL_THINLTO"} |-> "true"]
    /\ computeCount["globalMixedBuildsSupport"] = 1

\* C27: a Getenv of a name the environment does not bind returns "" and
\* records the name with "", as it does for a name bound to ""; and
\* GetenvWithDefault returns the default when the value of the ledger is ""
\* and that value otherwise, the ledger holding "" and never the default.
C27_UnsetIsEmpty ==
    [][/\ (ret'.op \in GetenvOps /\ ~ret'.panicked /\ ret'.key \notin DOMAIN envDeps) =>
             /\ ret'.key \in DOMAIN envDeps'
             /\ ret'.key \in DOMAIN env => envDeps'[ret'.key] = env[ret'.key]
             /\ ret'.key \notin DOMAIN env =>
                   /\ envDeps'[ret'.key] = ""
                   /\ ret'.op = "Getenv" => ret'.val = ""
       /\ (ret'.op = "GetenvWithDefault" /\ ~ret'.panicked) =>
             /\ ret'.key \in DOMAIN envDeps'
             /\ envDeps'[ret'.key] = "" => ret'.val = ret'.dflt
             /\ envDeps'[ret'.key] # "" => ret'.val = envDeps'[ret'.key]
             /\ ret'.key \in DOMAIN envDeps => envDeps'[ret'.key] = envDeps[ret'.key]
             /\ (ret'.key \notin DOMAIN envDeps /\ ret'.key \notin DOMAIN env
                    /\ ret'.dflt # "")
                   => envDeps'[ret'.key] # ret'.dflt]_vars

\* C27 witness: one name is not bound, the other is bound to ""; both are
\* recorded with "", and GetenvWithDefault returned the default for the
\* name that is not bound.
C27_Witness ==
    /\ ret.op = "GetenvWithDefault" /\ ~ret.panicked
    /\ ret.key \notin DOMAIN env
    /\ ret.dflt = "dflt" /\ ret.val = "dflt"
    /\ envDeps = [n \in EnvNames |-> ""]
    /\ \E n \in DOMAIN env : env[n] = ""

\* C28: NewConfig returns "Build dir must not contain source directory" only
\* when SoongOutDir is the source root or a directory above it; every other
\* output directory, also one whose path is a beginning of the path of the
\* source root without being above it, gets past the check.
C28_RejectsOnlyAncestors ==
    /\ (pc = "done" /\ result = Returned(BuildDirError))
          => IsAncestorOrSelf(cmdArgs.SoongOutDir, absSrcDir)
    /\ (pc = "done" /\ ~IsAncestorOrSelf(cmdArgs.SoongOutDir, absSrcDir)) => opened

\* The names between the commas of the argument.
ListedNames(arg) ==
    {SubSeq(arg, i, j) : i \in 1..Len(arg), j \in 1..Len(arg)} \cap
    {SubSeq(arg, i, j) : <<i, j>> \in
        {x \in (1..Len(arg)) \X (1..Len(arg)) :
            /\ x[1] <= x[2]
            /\ \A k \in x[1]..x[2] : arg[k] # ","
            /\ x[1] = 1 \/ arg[x[1] - 1] = ","
            /\ x[2] = Len(arg) \/ arg[x[2] + 1] = ","}}

\* C29: when NewConfig returns, BazelModulesForceEnabledByFlag is the set of
\* the names listed in BazelForceEnabledModules, the empty set for the empty
\* argument; from then on a step only adds to it, and what it adds are the
\* names given to AddForceEnabledModules.
C29_ForceEnabledModules ==
    [][/\ (pc = "mode" /\ pc' = "done" /\ result'.kind = "ok") =>
             bazelForceEnabledModules' = ListedNames(cmdArgs.BazelForceEnabledModules)
       /\ (pc = "done" /\ bazelForceEnabledModules' # bazelForceEnabledModules) =>
             /\ acc'.op = "AddForceEnabledModules"
             /\ bazelForceEnabledModules' =
                   bazelForceEnabledModules
                      \cup {acc'.arg[i] : i \in 1..Len(acc'.arg)}]_vars

\* The paths of a list, cleaned.
CleanedDirs(dirs) == {Clean(dirs[i]) : i \in 1..Len(dirs)}

\* The included and the excluded list an accessor of included directories
\* reads.
SnapshotListsOf(op) ==
    IF op = "VendorSnapshotDirsIncludedMap"
    THEN [ex |-> productVariables.VendorSnapshotDirsExcluded,
          in |-> productVariables.VendorSnapshotDirsIncluded]
    ELSE [ex |-> productVariables.RecoverySnapshotDirsExcluded,
          in |-> productVariables.RecoverySnapshotDirsIncluded]

\* A directory is, after cleaning, twice in a list or in both lists.
DuplicatedDirs(l) ==
    \/ Cardinality(CleanedDirs(l.in)) # Len(l.in)
    \/ Cardinality(CleanedDirs(l.ex)) # Len(l.ex)
    \/ CleanedDirs(l.in) \cap CleanedDirs(l.ex) # {}

C22_ConcurrentLedger ==
    /\ \A t \in Threads :
          /\ (thr[t].op = "Getenv" /\ thr[t].pc = "returned") =>
                /\ thr[t].key \in DOMAIN envDeps
                /\ envDeps[thr[t].key] = thr[t].val
                /\ firstRet[thr[t].key] = thr[t].val
                /\ firstDeps.called =>
                      /\ thr[t].key \in DOMAIN depsRet
                      /\ depsRet[thr[t].key] = thr[t].val
          /\ (thr[t].op = "Getenv" /\ thr[t].pc = "panicked") =>
                envFrozen /\ thr[t].key \notin DOMAIN envDeps
          /\ thr[t].op = "EnvDeps" => thr[t].pc # "panicked"
    /\ \A n \in EnvNames : firstRet[n] # NoValue => (n \in DOMAIN envDeps /\ envDeps[n] = firstRet[n])
    /\ firstDeps.called => (depsRet = envDeps /\ firstDeps.deps = envDeps)

\* Two workers are back from Getenv of the same name, whose binding was
\* changed in between, after EnvDeps has returned a mapping.
C22_Witness ==
    /\ firstDeps.called
    /\ \E t, u \in Threads :
          /\ t # u
          /\ thr[t].op = "Getenv" /\ thr[t].pc = "returned"
          /\ thr[u].op = "Getenv" /\ thr[u].pc = "returned"
          /\ thr[t].key = thr[u].key
          /\ MapGet(env, thr[t].key) # thr[t].val

=============================================================================
